---- MODULE Spec2Model ----
(***************************************************************************)
(* Storage backends (local, S3, GCS, SFTP) and the SQL session manager of  *)
(* the FastAPI template, as state machines.                                *)
(*                                                                         *)
(* Strings whose characters matter (identifiers, extensions, paths) are    *)
(* sequences of one-character strings; byte blobs are sequences of         *)
(* integers.  An optional value is a sequence of length 0 or 1.            *)
(***************************************************************************)
EXTENDS Integers, Sequences, FiniteSets, TLC

VARIABLES
    backend,       \* which FileStorageService variant the instance is
    store,         \* files of the backend: full path -> <<>> or <<content>>
    dirs,          \* directories that exist on the backend
    s3_session,    \* S3FileStorageService.s3_session
    gcs_client,    \* GCSFileStorageService.gcs_client
    bucket,        \* GCSFileStorageService.bucket
    sftp_client,   \* SFTPFileStorageService.sftp_client
    task,          \* per caller on the event loop: the call in progress
    last,          \* the call that completed most recently, with its outcome
    ncalls,        \* storage calls started so far
    trueCount,     \* history: per path, upload_file_with_id calls that returned True
    winner,        \* history: per path, the content of the first call that returned True
    raced,         \* history: per path, whether two uploads to it ever overlapped
    engine,        \* per SQLDatabaseService instance: engine, <<>> or <<id>>
    session_maker, \* per instance: whether the session factory is set
    session_ctx,   \* class-level ContextVar: per unit of work, <<>> or <<session id>>
    sessions,      \* every session created so far: id -> record
    engines,       \* every engine created so far: id -> record
    unit,          \* per unit of work: position, operation in progress, history
    nops,          \* database operations started so far
    dbLast,        \* the database call that completed most recently, with its outcome
    services,      \* Settings.services: <<>> (None) or <<list of service instances>>
    ret,           \* the latest call of a function without state, with what it gave
    settings_class,    \* config._settings_class
    settings_instance, \* config._settings_instance: <<>> or <<the Settings object>>
    yaml_config,       \* what the YAML file at CONFIG_YAML_PATH holds
    settings_last,     \* the latest call on the settings module, with its outcome
    settings_hist,     \* history: calls made, instances built, overrides that returned,
                       \* the class in effect at the first get_settings call
    upload,            \* the uploaded file behind an UploadImageFile: its bytes, whether
                       \* they are an image, whether the spooled file is still in memory
    file_pos,          \* position of the file object
    image,             \* UploadImageFile.image is set
    base64_cache,      \* UploadImageFile._base64_cache
    base64_lock,       \* the coroutine that holds _base64_lock, if any
    coro,              \* the coroutines that call methods of the UploadImageFile
    img_last,          \* the latest finished call on the UploadImageFile
    img_calls          \* calls started on the UploadImageFile

storageVars == <<backend, store, dirs, s3_session, gcs_client, bucket, sftp_client,
                 task, last, ncalls, trueCount, winner, raced>>
dbVars == <<engine, session_maker, session_ctx, sessions, engines, unit, nops, dbLast>>
settingsVars == <<settings_class, settings_instance, yaml_config, settings_last,
                  settings_hist>>
imageVars == <<upload, file_pos, image, base64_cache, base64_lock, coro, img_last,
               img_calls>>
configVars == <<services, ret, settingsVars, imageVars>>
vars == <<backend, store, dirs, s3_session, gcs_client, bucket, sftp_client,
          task, last, ncalls, trueCount, winner, raced,
          engine, session_maker, session_ctx, sessions, engines, unit, nops, dbLast,
          services, ret,
          settings_class, settings_instance, yaml_config, settings_last, settings_hist,
          upload, file_pos, image, base64_cache, base64_lock, coro, img_last, img_calls>>

(***************************************************************************)
(* Bounds                                                                  *)
(***************************************************************************)
MaxCalls == 2
MaxOps == 2
MaxConnFailures == 6

Min(a, b) == IF a < b THEN a ELSE b

(***************************************************************************)
(* Python string and pathlib helpers                                       *)
(***************************************************************************)
\* s[:n]
Take(s, n) == SubSeq(s, 1, Min(n, Len(s)))

\* s[a:b]
Slice(s, a, b) == SubSeq(s, a + 1, Min(b, Len(s)))

\* str.lstrip(c)
RECURSIVE LStrip(_, _)
LStrip(s, c) == IF s # <<>> /\ Head(s) = c THEN LStrip(Tail(s), c) ELSE s

\* str.split("/")
IsSlashAt(s, i) == s[i] = "/"
Split(s) ==
    LET slashes == SelectSeq([i \in 1..Len(s) |-> i], LAMBDA i : IsSlashAt(s, i))
        cuts == <<0>> \o slashes \o <<Len(s) + 1>>
    IN  [k \in 1..(Len(cuts) - 1) |-> SubSeq(s, cuts[k] + 1, cuts[k + 1] - 1)]

\* "/".join(parts)
RECURSIVE JoinParts(_)
JoinParts(parts) ==
    IF parts = <<>> THEN <<>>
    ELSE IF Len(parts) = 1 THEN Head(parts)
    ELSE Head(parts) \o <<"/">> \o JoinParts(Tail(parts))

IsRealPart(p) == p # <<>> /\ p # <<".">>

\* pathlib: the anchor of a POSIX path ("", "/" or "//")
PathAnchor(s) ==
    LET n == Len(s) - Len(LStrip(s, "/"))
    IN  IF n = 0 THEN <<>> ELSE IF n = 2 THEN <<"/", "/">> ELSE <<"/">>

\* str(pathlib.PurePosixPath(s)): empty and "." components are dropped
PosixPath(s) ==
    LET body == JoinParts(SelectSeq(Split(s), IsRealPart))
        whole == PathAnchor(s) \o body
    IN  IF whole = <<>> THEN <<".">> ELSE whole

\* a / b on paths
PathJoin(a, b) ==
    IF b # <<>> /\ Head(b) = "/" THEN PosixPath(b)
    ELSE PosixPath(a \o <<"/">> \o b)

\* Path.parents, the path's ancestors (without "." and the anchor)
PathParents(p) ==
    LET parts == SelectSeq(Split(p), IsRealPart)
    IN  { PathAnchor(p) \o JoinParts(SubSeq(parts, 1, k)) : k \in 1..(Len(parts) - 1) }

IsPrefix(p, s) == Len(p) <= Len(s) /\ SubSeq(s, 1, Len(p)) = p

\* byte order of the characters that occur in keys
CharOrder == <<".", "/", "0", "1", "2", "3", "4", "5", "6", "7", "8", "9",
               "a", "b", "c", "d", "e", "f", "o", "r", "t", "x">>
Ord(c) == CHOOSE i \in DOMAIN CharOrder : CharOrder[i] = c

RECURSIVE LexLess(_, _)
LexLess(a, b) ==
    IF b = <<>> THEN FALSE
    ELSE IF a = <<>> THEN TRUE
    ELSE IF Head(a) = Head(b) THEN LexLess(Tail(a), Tail(b))
    ELSE Ord(Head(a)) < Ord(Head(b))

(***************************************************************************)
(* Content Addresser                                                       *)
(***************************************************************************)
None == <<>>
Some(x) == <<x>>

\* the blobs callers upload: b"a" and b"b"
Files == { <<97>>, <<98>> }

\* hashlib.md5(file).hexdigest() on the blobs above
compute_file_id(file) ==
    IF file = <<97>>
    THEN <<"0","c","c","1","7","5","b","9","c","0","f","1","b","6","a","8",
           "3","1","c","3","9","9","e","2","6","9","7","7","2","6","6","1">>
    ELSE <<"9","2","e","b","5","f","f","e","e","6","a","e","2","f","e","c",
           "3","a","d","7","1","c","7","7","7","5","3","1","5","7","8","f">>

\* identifiers callers pass to upload_file_with_id
FileIds == { <<"a","b","c","d","e","f","1">> }

\* extension: None, "txt" or ".txt"
Extensions == { None, Some(<<"t","x","t">>), Some(<<".","t","x","t">>) }

\* a get_storage_path that keeps the dots the extension starts with
get_storage_path_keeps_dots(file_id, extension) ==
    LET ext == IF extension # None /\ extension[1] # <<>>
               THEN <<".">> \o extension[1]
               ELSE <<>>
    IN  PosixPath(Take(file_id, 3) \o <<"/">> \o Slice(file_id, 3, 6) \o <<"/">>
                  \o file_id \o ext)

get_storage_path(file_id, extension) ==
    LET ext == IF extension # None /\ extension[1] # <<>>
               THEN <<".">> \o LStrip(extension[1], ".")
               ELSE <<>>
    IN  PosixPath(Take(file_id, 3) \o <<"/">> \o Slice(file_id, 3, 6) \o <<"/">>
                  \o file_id \o ext)

\* root_path of the instance
root_path == <<"r","o","o","t">>

\* the blob and extension callers pass to upload_file
UploadFileFiles == { <<97>> }
UploadFileExtensions == { Some(<<"t","x","t">>) }

StoragePaths ==
    { get_storage_path(i, e) : i \in FileIds, e \in Extensions }
    \cup { get_storage_path(compute_file_id(f), e) :
             f \in UploadFileFiles, e \in UploadFileExtensions }
FullPaths == { PathJoin(root_path, sp) : sp \in StoragePaths }

(***************************************************************************)
(* tenacity: @retry(stop=stop_after_attempt(5), wait=wait_exponential(..)) *)
(***************************************************************************)
StopAfterAttempt == 5

\* stop_after_attempt: the loop gives up once this attempt has failed
RetryStops(attempt_number) == attempt_number >= StopAfterAttempt

\* the attempts the loop makes when the first `failures` attempts raise
RECURSIVE RetryLoop(_, _)
RetryLoop(failures, attempt_number) ==
    IF failures < attempt_number THEN [ok |-> TRUE, attempts |-> attempt_number]
    ELSE IF RetryStops(attempt_number) THEN [ok |-> FALSE, attempts |-> attempt_number]
    ELSE RetryLoop(failures, attempt_number + 1)

(***************************************************************************)
(* Results of a call: what it returned ("True", "False", "None") or the    *)
(* exception it raised.  The fault of a call is the step that raised in    *)
(* it, "none" when no step did.                                            *)
(***************************************************************************)
Returned == { "True", "False", "None" }
Raised == { "RetryError", "OSError", "Error" }

Bool(b) == IF b THEN "True" ELSE "False"

\* bool(v) of a Python value; a coroutine object is truthy
PyTruthy(v) == v \notin { "False", "None" }

\* FileStorageService.upload_file: awaits upload_file_with_id and falls off the end
upload_file(inner) == IF inner \in Raised THEN inner ELSE "None"

OuterResult(op, inner) == IF op = "upload_file" THEN upload_file(inner) ELSE inner

Backends == { "local", "s3", "gcs", "sftp" }
Tasks == { "t1", "t2" }

IdleTask ==
    [pc |-> "idle", op |-> "none", file |-> <<>>, path |-> <<>>, attempt |-> 0,
     pre |-> None, seq |-> 0]

NoCall ==
    [op |-> "none", file |-> <<>>, path |-> <<>>, attempt |-> 0, pre |-> None,
     seq |-> 0, fault |-> "none", inner |-> "none", result |-> "none"]

(***************************************************************************)
(* Local filesystem                                                        *)
(***************************************************************************)
\* LocalFileStorageService.exists
\* an exists that is satisfied by the directory the path lies in
local_parent_exists(path) ==
    Bool(store[path] # None \/ path \in dirs \/ PathParents(path) \cap dirs # {})

local_exists(path) == Bool(store[path] # None \/ path \in dirs)

\* an upload that writes without looking whether the path is taken
local_upload_overwrite(path, file, mkdirOut, writeOut) ==
    [result |-> "True", fault |-> "none",
     store |-> [store EXCEPT ![path] = Some(file)],
     dirs |-> dirs \cup PathParents(path)]

\* LocalFileStorageService.upload_file_with_id on local_path, given how
\* mkdir and open/write end ("ok", or the OSError they raise)
local_upload(path, file, mkdirOut, writeOut) ==
    IF mkdirOut # "ok"
    THEN [result |-> "OSError", fault |-> "mkdir", store |-> store, dirs |-> dirs]
    ELSE LET made == dirs \cup PathParents(path)
         IN  IF local_exists(path) = "True"
             THEN [result |-> "False", fault |-> "none", store |-> store, dirs |-> made]
             ELSE IF writeOut = "ok"
             THEN [result |-> "True", fault |-> "none",
                   store |-> [store EXCEPT ![path] = Some(file)], dirs |-> made]
             ELSE IF writeOut = "write_error"
             THEN [result |-> "False", fault |-> "write",
                   store |-> [store EXCEPT ![path] = Some(<<>>)], dirs |-> made]
             ELSE [result |-> "False", fault |-> "open", store |-> store, dirs |-> made]

(***************************************************************************)
(* Google Cloud Storage                                                    *)
(***************************************************************************)
\* GCSFileStorageService.ensure_connection under the retry loop
gcs_ensure_connection(failures) ==
    LET r == RetryLoop(failures, 1)
    IN  [ok |-> r.ok, attempts |-> r.attempts,
         gcs_client |-> IF r.ok THEN TRUE ELSE gcs_client,
         bucket |-> IF r.ok THEN TRUE ELSE bucket]

\* an upload to GCS that writes without asking whether the blob exists
gcs_upload_overwrite(path, file, failures, existsOut, writeOut) ==
    LET c == gcs_ensure_connection(failures)
    IN  [result |-> IF c.ok THEN "True" ELSE "RetryError",
         fault |-> IF c.ok THEN "none" ELSE "connect",
         store |-> IF c.ok THEN [store EXCEPT ![path] = Some(file)] ELSE store,
         attempts |-> c.attempts, gcs_client |-> c.gcs_client, bucket |-> c.bucket]

\* GCSFileStorageService.upload_file_with_id
gcs_upload(path, file, failures, existsOut, writeOut) ==
    LET c == gcs_ensure_connection(failures)
        base == [result |-> "RetryError", fault |-> "connect", store |-> store,
                 attempts |-> c.attempts, gcs_client |-> c.gcs_client,
                 bucket |-> c.bucket]
    IN  IF ~c.ok THEN base
        ELSE IF existsOut # "ok" THEN [base EXCEPT !.result = "False", !.fault = "exists"]
        ELSE IF store[path] # None THEN [base EXCEPT !.result = "False", !.fault = "none"]
        ELSE IF writeOut # "ok" THEN [base EXCEPT !.result = "False", !.fault = "write"]
        ELSE [base EXCEPT !.result = "True", !.fault = "none",
                          !.store = [store EXCEPT ![path] = Some(file)]]

\* GCSFileStorageService.exists
gcs_exists(path, failures, existsOut) ==
    LET c == gcs_ensure_connection(failures)
        base == [result |-> "RetryError", fault |-> "connect", attempts |-> c.attempts,
                 gcs_client |-> c.gcs_client, bucket |-> c.bucket]
    IN  IF ~c.ok THEN base
        ELSE IF existsOut # "ok" THEN [base EXCEPT !.result = "Error", !.fault = "exists"]
        ELSE [base EXCEPT !.result = Bool(store[path] # None), !.fault = "none"]

(***************************************************************************)
(* SFTP                                                                    *)
(***************************************************************************)
\* SFTPFileStorageService.ensure_connection under the retry loop
sftp_ensure_connection(failures) ==
    LET r == RetryLoop(failures, 1)
    IN  [ok |-> r.ok, attempts |-> r.attempts,
         sftp_client |-> IF r.ok THEN TRUE ELSE sftp_client]

\* sftp_client.stat(path): a file or a directory is there
sftp_stat(path) == store[path] # None \/ path \in dirs

\* SFTPFileStorageService.exists
sftp_exists(path, failures, statOut) ==
    LET c == sftp_ensure_connection(failures)
        base == [result |-> "RetryError", fault |-> "connect", attempts |-> c.attempts,
                 sftp_client |-> c.sftp_client]
    IN  IF ~c.ok THEN base
        ELSE IF statOut # "ok" THEN [base EXCEPT !.result = "Error", !.fault = "stat"]
        ELSE [base EXCEPT !.result = Bool(sftp_stat(path)), !.fault = "none"]

\* the value of `self.exists(storage_path)` in upload_file_with_id: exists is
\* an async def and the call is not awaited, so the value is a coroutine object
sftp_exists_call(path) == "coroutine"

\* the directories the loop of upload_file_with_id stats or creates
RECURSIVE sftp_dir_chain(_, _)
sftp_dir_chain(parts, current) ==
    IF parts = <<>> THEN {}
    ELSE LET cur == IF current # <<>> THEN current \o <<"/">> \o Head(parts)
                    ELSE Head(parts)
         IN  {cur} \cup sftp_dir_chain(Tail(parts), cur)

\* remote_path.rsplit("/", 1)[0]
RSplitHead(p) ==
    LET parts == Split(p)
    IN  IF Len(parts) = 1 THEN p ELSE JoinParts(SubSeq(parts, 1, Len(parts) - 1))

\* SFTPFileStorageService.upload_file_with_id
sftp_upload(path, file, failures, mkdirOut, writeOut) ==
    LET c == sftp_ensure_connection(failures)
        base == [result |-> "RetryError", fault |-> "connect", store |-> store,
                 dirs |-> dirs, attempts |-> c.attempts, sftp_client |-> c.sftp_client]
        made == dirs \cup sftp_dir_chain(Split(RSplitHead(path)), <<>>)
    IN  IF ~c.ok THEN base
        ELSE IF PyTruthy(sftp_exists_call(path))
        THEN [base EXCEPT !.result = "False", !.fault = "none"]
        ELSE IF mkdirOut # "ok" THEN [base EXCEPT !.result = "False", !.fault = "mkdir"]
        ELSE IF writeOut = "ok"
        THEN [base EXCEPT !.result = "True", !.fault = "none", !.dirs = made,
                          !.store = [store EXCEPT ![path] = Some(file)]]
        ELSE IF writeOut = "write_error"
        THEN [base EXCEPT !.result = "False", !.fault = "write", !.dirs = made,
                          !.store = [store EXCEPT ![path] = Some(<<>>)]]
        ELSE [base EXCEPT !.result = "False", !.fault = "open", !.dirs = made]

(***************************************************************************)
(* S3                                                                      *)
(***************************************************************************)
\* list_objects_v2(Bucket, Prefix=prefix, MaxKeys=1): the first key, in byte
\* order, among the keys that start with the prefix
s3_list_objects_v2(prefix) ==
    LET keys == { k \in DOMAIN store : store[k] # None /\ IsPrefix(prefix, k) }
    IN  { k \in keys : \A j \in keys : ~LexLess(j, k) }

\* a listing check that never finds the key
s3_key_absent(s3_path) == FALSE

\* "Contents" in response and any(obj["Key"] == s3_path for obj in response["Contents"])
s3_key_exists(s3_path) == \E k \in s3_list_objects_v2(s3_path) : k = s3_path

\* S3FileStorageService.get_client under the retry loop; a failed attempt
\* fails before or after aioboto3.Session() was stored
s3_get_client(failures, sessionMade) ==
    LET r == RetryLoop(failures, 1)
    IN  [ok |-> r.ok, attempts |-> r.attempts,
         s3_session |-> IF r.ok \/ sessionMade THEN TRUE ELSE s3_session]

\* the listing step of upload_file_with_id and of exists, and what follows it:
\* a botocore error is caught and gives False, any other exception propagates
s3_after_list(op, path, out) ==
    IF out = "Error" THEN [pc |-> "done", result |-> "Error", fault |-> "list:Error"]
    ELSE IF out = "ClientError"
    THEN [pc |-> "done", result |-> "False", fault |-> "list:ClientError"]
    ELSE IF op = "exists"
    THEN [pc |-> "done", result |-> Bool(s3_key_exists(path)), fault |-> "none"]
    ELSE IF s3_key_exists(path) THEN [pc |-> "done", result |-> "False", fault |-> "none"]
    ELSE [pc |-> "put", result |-> "none", fault |-> "none"]

\* a put_object step whose handler lets the botocore error through
s3_after_put_reraise(path, file, out) ==
    IF out = "ok"
    THEN [result |-> "True", fault |-> "none",
          store |-> [store EXCEPT ![path] = Some(file)]]
    ELSE [result |-> "Error", fault |-> "put:" \o out, store |-> store]

\* a put_object step that leaves an object that is already there as it is
s3_after_put_keeps_first(path, file, out) ==
    IF out = "Error" THEN [result |-> "Error", fault |-> "put:Error", store |-> store]
    ELSE IF out = "ClientError"
    THEN [result |-> "False", fault |-> "put:ClientError", store |-> store]
    ELSE [result |-> "True", fault |-> "none",
          store |-> IF store[path] = None THEN [store EXCEPT ![path] = Some(file)]
                    ELSE store]

\* the put_object step of upload_file_with_id
s3_after_put(path, file, out) ==
    IF out = "Error" THEN [result |-> "Error", fault |-> "put:Error", store |-> store]
    ELSE IF out = "ClientError"
    THEN [result |-> "False", fault |-> "put:ClientError", store |-> store]
    ELSE [result |-> "True", fault |-> "none",
          store |-> [store EXCEPT ![path] = Some(file)]]

(***************************************************************************)
(* Calls                                                                   *)
(***************************************************************************)
FullPath(file_id, extension) == PathJoin(root_path, get_storage_path(file_id, extension))

\* the uploads a caller can start: upload_file_with_id(id, file, ext) and
\* upload_file(file, ext), each with the path it targets
UploadCalls ==
    { [op |-> "upload_file_with_id", file |-> f, path |-> FullPath(i, e)] :
        i \in FileIds, f \in Files, e \in Extensions }
    \cup
    { [op |-> "upload_file", file |-> f, path |-> FullPath(compute_file_id(f), e)] :
        f \in UploadFileFiles, e \in UploadFileExtensions }

ExistsCalls == { [op |-> "exists", file |-> <<>>, path |-> p] : p \in FullPaths }

IsUpload(op) == op \in { "upload_file_with_id", "upload_file" }
InFlight(u) == task[u].pc # "idle"

\* a new call runs as the first caller that has no call in progress
CanStart(t) ==
    /\ task[t].pc = "idle"
    /\ t = "t1" \/ InFlight("t1")
    /\ ncalls < MaxCalls

\* the record of a completed call: c is the call, seq its number, pre what its
\* path held when it began, inner what upload_file_with_id or exists gave
Finished(c, seq, attempts, pre, fault, inner) ==
    [op |-> c.op, file |-> c.file, path |-> c.path, attempt |-> attempts,
     pre |-> pre, seq |-> seq, fault |-> fault, inner |-> inner,
     result |-> OuterResult(c.op, inner)]

\* history of the uploads that returned True
Record(path, file, inner) ==
    /\ trueCount' = IF inner = "True" THEN [trueCount EXCEPT ![path] = @ + 1]
                    ELSE trueCount
    /\ winner' = IF inner = "True" /\ winner[path] = None
                 THEN [winner EXCEPT ![path] = Some(file)]
                 ELSE winner

\* how many connection attempts in a row the environment lets fail: none, all
\* but the last allowed one, all allowed ones, or more
ConnFailures(connected) ==
    IF connected THEN {0}
    ELSE { 0, StopAfterAttempt - 1, StopAfterAttempt, MaxConnFailures }

LocalUpload(t) ==
    /\ backend = "local" /\ CanStart(t)
    /\ \E c \in UploadCalls, writeOut \in { "ok", "open_error", "write_error" } :
       \E mkdirOut \in IF PathParents(c.path) \subseteq dirs THEN { "ok" }
                        ELSE { "ok", "OSError" } :
          LET r == local_upload(c.path, c.file, mkdirOut, writeOut)
          IN  /\ store' = r.store
              /\ dirs' = r.dirs
              /\ last' = Finished(c, ncalls + 1, 0, store[c.path], r.fault, r.result)
              /\ Record(c.path, c.file, r.result)
    /\ ncalls' = ncalls + 1
    /\ UNCHANGED <<backend, s3_session, gcs_client, bucket, sftp_client, task, raced>>
    /\ UNCHANGED dbVars
    /\ UNCHANGED configVars

LocalExists(t) ==
    /\ backend = "local" /\ CanStart(t)
    /\ \E c \in ExistsCalls :
          last' = Finished(c, ncalls + 1, 0, store[c.path], "none", local_exists(c.path))
    /\ ncalls' = ncalls + 1
    /\ UNCHANGED <<backend, store, dirs, s3_session, gcs_client, bucket, sftp_client,
                   task, trueCount, winner, raced>>
    /\ UNCHANGED dbVars
    /\ UNCHANGED configVars

GcsUpload(t) ==
    /\ backend = "gcs" /\ CanStart(t)
    /\ \E c \in UploadCalls, failures \in ConnFailures(gcs_client /\ bucket),
          existsOut \in { "ok", "Error" }, writeOut \in { "ok", "Error" } :
          LET r == gcs_upload(c.path, c.file, failures, existsOut, writeOut)
          IN  /\ store' = r.store
              /\ gcs_client' = r.gcs_client
              /\ bucket' = r.bucket
              /\ last' = Finished(c, ncalls + 1, r.attempts, store[c.path], r.fault,
                                  r.result)
              /\ Record(c.path, c.file, r.result)
    /\ ncalls' = ncalls + 1
    /\ UNCHANGED <<backend, dirs, s3_session, sftp_client, task, raced>>
    /\ UNCHANGED dbVars
    /\ UNCHANGED configVars

GcsExists(t) ==
    /\ backend = "gcs" /\ CanStart(t)
    /\ \E c \in ExistsCalls, failures \in ConnFailures(gcs_client /\ bucket),
          existsOut \in { "ok", "Error" } :
          LET r == gcs_exists(c.path, failures, existsOut)
          IN  /\ gcs_client' = r.gcs_client
              /\ bucket' = r.bucket
              /\ last' = Finished(c, ncalls + 1, r.attempts, store[c.path], r.fault,
                                  r.result)
    /\ ncalls' = ncalls + 1
    /\ UNCHANGED <<backend, store, dirs, s3_session, sftp_client, task,
                   trueCount, winner, raced>>
    /\ UNCHANGED dbVars
    /\ UNCHANGED configVars

SftpUpload(t) ==
    /\ backend = "sftp" /\ CanStart(t)
    /\ \E c \in UploadCalls, failures \in ConnFailures(FALSE),
          mkdirOut \in { "ok", "Error" },
          writeOut \in { "ok", "open_error", "write_error" } :
          LET r == sftp_upload(c.path, c.file, failures, mkdirOut, writeOut)
          IN  /\ store' = r.store
              /\ dirs' = r.dirs
              /\ sftp_client' = r.sftp_client
              /\ last' = Finished(c, ncalls + 1, r.attempts, store[c.path], r.fault,
                                  r.result)
              /\ Record(c.path, c.file, r.result)
    /\ ncalls' = ncalls + 1
    /\ UNCHANGED <<backend, s3_session, gcs_client, bucket, task, raced>>
    /\ UNCHANGED dbVars
    /\ UNCHANGED configVars

SftpExists(t) ==
    /\ backend = "sftp" /\ CanStart(t)
    /\ \E c \in ExistsCalls, failures \in ConnFailures(FALSE),
          statOut \in { "ok", "Error" } :
          LET r == sftp_exists(c.path, failures, statOut)
          IN  /\ sftp_client' = r.sftp_client
              /\ last' = Finished(c, ncalls + 1, r.attempts, store[c.path], r.fault,
                                  r.result)
    /\ ncalls' = ncalls + 1
    /\ UNCHANGED <<backend, store, dirs, s3_session, gcs_client, bucket, task,
                   trueCount, winner, raced>>
    /\ UNCHANGED dbVars
    /\ UNCHANGED configVars

\* an S3 call begins and awaits get_client; the call then suspends at every
\* request, so other callers interleave
S3GetClient(t) ==
    /\ backend = "s3" /\ CanStart(t)
    /\ \E c \in UploadCalls \cup ExistsCalls,
          failures \in ConnFailures(FALSE), sessionMade \in BOOLEAN :
          LET r == s3_get_client(failures, sessionMade)
          IN  /\ s3_session' = r.s3_session
              /\ IF r.ok
                 THEN /\ task' = [task EXCEPT ![t] =
                                    [pc |-> "list", op |-> c.op, file |-> c.file,
                                     path |-> c.path, attempt |-> r.attempts,
                                     pre |-> store[c.path], seq |-> ncalls + 1]]
                      /\ last' = last
                 ELSE /\ task' = task
                      /\ last' = Finished(c, ncalls + 1, r.attempts, store[c.path],
                                          "connect", "RetryError")
              /\ raced' = IF IsUpload(c.op) /\ r.ok /\ \E u \in Tasks \ {t} :
                               InFlight(u) /\ IsUpload(task[u].op) /\ task[u].path = c.path
                          THEN [raced EXCEPT ![c.path] = TRUE]
                          ELSE raced
    /\ ncalls' = ncalls + 1
    /\ UNCHANGED <<backend, store, dirs, gcs_client, bucket, sftp_client,
                   trueCount, winner>>
    /\ UNCHANGED dbVars
    /\ UNCHANGED configVars

S3Done(t, fault, inner) ==
    Finished(task[t], task[t].seq, task[t].attempt, task[t].pre, fault, inner)

S3List(t) ==
    /\ backend = "s3" /\ task[t].pc = "list"
    /\ \E out \in { "ok", "ClientError", "Error" } :
          LET r == s3_after_list(task[t].op, task[t].path, out)
          IN  IF r.pc = "done"
              THEN /\ task' = [task EXCEPT ![t] = IdleTask]
                   /\ last' = S3Done(t, r.fault, r.result)
              ELSE /\ task' = [task EXCEPT ![t].pc = r.pc]
                   /\ last' = last
    /\ UNCHANGED <<backend, store, dirs, s3_session, gcs_client, bucket, sftp_client,
                   ncalls, trueCount, winner, raced>>
    /\ UNCHANGED dbVars
    /\ UNCHANGED configVars

S3Put(t) ==
    /\ backend = "s3" /\ task[t].pc = "put"
    /\ \E out \in { "ok", "ClientError", "Error" } :
          LET r == s3_after_put(task[t].path, task[t].file, out)
          IN  /\ store' = r.store
              /\ task' = [task EXCEPT ![t] = IdleTask]
              /\ last' = S3Done(t, r.fault, r.result)
              /\ Record(task[t].path, task[t].file, r.result)
    /\ UNCHANGED <<backend, dirs, s3_session, gcs_client, bucket, sftp_client, ncalls, raced>>
    /\ UNCHANGED dbVars
    /\ UNCHANGED configVars

(***************************************************************************)
(* Initial state of the storage instance: nothing connected; the backend   *)
(* is empty or already holds one file.                                     *)
(***************************************************************************)
EmptyStore == [p \in FullPaths |-> None]
OldPath == FullPath(<<"a","b","c","d","e","f","1">>, Some(<<"t","x","t">>))
InitStores == { EmptyStore, [EmptyStore EXCEPT ![OldPath] = Some(<<98>>)] }

InitStorage ==
    /\ backend \in Backends
    /\ store \in InitStores
    /\ dirs = IF backend \in { "local", "sftp" }
              THEN UNION { PathParents(p) : p \in { q \in FullPaths : store[q] # None } }
              ELSE {}
    /\ s3_session = FALSE
    /\ gcs_client = FALSE
    /\ bucket = FALSE
    /\ sftp_client = FALSE
    /\ task = [t \in Tasks |-> IdleTask]
    /\ last = NoCall
    /\ ncalls = 0
    /\ trueCount = [p \in FullPaths |-> 0]
    /\ winner = [p \in FullPaths |-> None]
    /\ raced = [p \in FullPaths |-> FALSE]

NextStorage ==
    \E t \in Tasks :
        \/ LocalUpload(t) \/ LocalExists(t)
        \/ GcsUpload(t) \/ GcsExists(t)
        \/ SftpUpload(t) \/ SftpExists(t)
        \/ S3GetClient(t) \/ S3List(t) \/ S3Put(t)

(***************************************************************************)
(* SQL session manager (SQLDatabaseService)                                *)
(*                                                                         *)
(* A unit of work is one task context: the ContextVar _session_ctx, a      *)
(* class attribute shared by every instance, has one slot per unit.        *)
(* Sessions and engines are objects with an identity: the index at which   *)
(* they were created.                                                      *)
(***************************************************************************)
Units == { "u1", "u2" }
Instances == { "db1" }

\* the fields the methods read and write, as one value
DB ==
    [engine |-> engine, session_maker |-> session_maker, session_ctx |-> session_ctx,
     sessions |-> sessions, engines |-> engines]

\* exceptions: the class and the words of str(exception)
NoExc == [cls |-> "none", msg |-> <<>>]
Exc(cls, msg) == [cls |-> cls, msg |-> msg]

\* the classes an exception class derives from, itself included
Bases(cls) ==
    CASE cls = "OperationalError" ->
            { "OperationalError", "DBAPIError", "SQLAlchemyError", "Exception" }
      [] cls = "IntegrityError" ->
            { "IntegrityError", "DBAPIError", "SQLAlchemyError", "Exception" }
      [] cls = "DBAPIError" -> { "DBAPIError", "SQLAlchemyError", "Exception" }
      [] cls = "sqlalchemy.exc.TimeoutError" ->
            { "sqlalchemy.exc.TimeoutError", "SQLAlchemyError", "Exception" }
      [] cls = "ArgumentError" -> { "ArgumentError", "SQLAlchemyError", "Exception" }
      [] cls = "ConnectionRefusedError" ->
            { "ConnectionRefusedError", "ConnectionError", "OSError", "Exception" }
      [] cls = "TypeError" -> { "TypeError", "Exception" }
      [] cls = "CancelledError" -> { "CancelledError", "BaseException" }
      [] cls = "Exception" -> { "Exception", "BaseException" }
      [] OTHER -> {}

IsInstance(exception, cls) == cls \in Bases(exception.cls)

\* word in msg
Contains(msg, word) == \E k \in 1..Len(msg) : msg[k] = word

\* a predicate that retries every error SQLAlchemy raises
retry_any_sqlalchemy_error(exception) == IsInstance(exception, "SQLAlchemyError")

\* _should_retry_on_exception
should_retry_on_exception(exception) ==
    IF IsInstance(exception, "OperationalError") \/ IsInstance(exception, "OSError")
    THEN TRUE
    ELSE IF /\ IsInstance(exception, "DBAPIError")
            /\ \/ Contains(exception.msg, "DuplicatePreparedStatementError")
               \/ Contains(exception.msg, "InvalidSQLStatementNameError")
    THEN TRUE
    ELSE FALSE

\* a set() that writes one slot shared by every unit of work
ctx_set_global(db, u, value) == [db EXCEPT !.session_ctx = [v \in Units |-> value]]

\* _session_ctx.get() and _session_ctx.set(value) in the context of unit u
ctx_get(db, u) == db.session_ctx[u]
ctx_set(db, u, value) == [db EXCEPT !.session_ctx[u] = value]

\* SQLDatabaseService.get_session
get_session(db, u) == ctx_get(db, u)

\* a connect that makes a session whether or not the slot holds one
connect_again(db, u, i, createOut) ==
    LET create == db.engine[i] = None \/ ~db.session_maker[i]
        db1 == IF create
               THEN [db EXCEPT !.engines = Append(@, [disposed |-> FALSE, inst |-> i]),
                               !.engine[i] = Some(Len(db.engines) + 1),
                               !.session_maker[i] = TRUE]
               ELSE db
        session == [open |-> TRUE, bind |-> db1.engine[i][1], unit |-> u,
                    in_transaction |-> FALSE]
        db2 == [db1 EXCEPT !.sessions = Append(@, session)]
    IN  IF create /\ createOut # NoExc THEN [db |-> db, exc |-> createOut]
        ELSE [db |-> ctx_set(db2, u, Some(Len(db2.sessions))), exc |-> NoExc]

\* a connect that builds an engine for every session it makes
connect_per_session_engine(db, u, i, createOut) ==
    IF get_session(db, u) # None THEN [db |-> db, exc |-> NoExc]
    ELSE LET db1 == [db EXCEPT !.engines = Append(@, [disposed |-> FALSE, inst |-> i]),
                               !.engine[i] = Some(Len(db.engines) + 1),
                               !.session_maker[i] = TRUE]
             session == [open |-> TRUE, bind |-> db1.engine[i][1], unit |-> u,
                         in_transaction |-> FALSE]
             db2 == [db1 EXCEPT !.sessions = Append(@, session)]
         IN  IF createOut # NoExc THEN [db |-> db, exc |-> createOut]
             ELSE [db |-> ctx_set(db2, u, Some(Len(db2.sessions))), exc |-> NoExc]

\* a connect that stores a session although the engine could not be built
connect_without_engine(db, u, i, createOut) ==
    IF get_session(db, u) # None THEN [db |-> db, exc |-> NoExc]
    ELSE LET create == db.engine[i] = None \/ ~db.session_maker[i]
             db1 == IF create /\ createOut = NoExc
                    THEN [db EXCEPT !.engines = Append(@, [disposed |-> FALSE, inst |-> i]),
                                    !.engine[i] = Some(Len(db.engines) + 1),
                                    !.session_maker[i] = TRUE]
                    ELSE db
             session == [open |-> TRUE,
                         bind |-> IF db1.engine[i] = None THEN 0 ELSE db1.engine[i][1],
                         unit |-> u, in_transaction |-> FALSE]
             db2 == [db1 EXCEPT !.sessions = Append(@, session)]
         IN  [db |-> ctx_set(db2, u, Some(Len(db2.sessions))),
              exc |-> IF create THEN createOut ELSE NoExc]

\* SQLDatabaseService.connect on instance i; createOut is how
\* create_async_engine ends when it is called
connect(db, u, i, createOut) ==
    IF get_session(db, u) # None THEN [db |-> db, exc |-> NoExc]
    ELSE LET create == db.engine[i] = None \/ ~db.session_maker[i]
             db1 == IF create
                    THEN [db EXCEPT !.engines = Append(@, [disposed |-> FALSE, inst |-> i]),
                                    !.engine[i] = Some(Len(db.engines) + 1),
                                    !.session_maker[i] = TRUE]
                    ELSE db
             session == [open |-> TRUE, bind |-> db1.engine[i][1], unit |-> u,
                         in_transaction |-> FALSE]
             db2 == [db1 EXCEPT !.sessions = Append(@, session)]
         IN  IF create /\ createOut # NoExc THEN [db |-> db, exc |-> createOut]
             ELSE [db |-> ctx_set(db2, u, Some(Len(db2.sessions))), exc |-> NoExc]

\* a disconnect_session that closes the session of every unit of work
disconnect_every_session(db, u) ==
    [db EXCEPT !.sessions = [s \in 1..Len(db.sessions) |->
                                [db.sessions[s] EXCEPT !.open = FALSE]],
               !.session_ctx = [v \in Units |-> None]]

\* SQLDatabaseService.disconnect_session
disconnect_session(db, u) ==
    LET session == ctx_get(db, u)
    IN  IF session # None
        THEN ctx_set([db EXCEPT !.sessions[session[1]].open = FALSE], u, None)
        ELSE db

\* an __aenter__ that connects eagerly
aenter_connects(db, u, i) == connect(db, u, i, NoExc).db

\* BaseService.__aenter__, which SQLDatabaseService inherits
aenter(db, u, i) == db

\* BaseService.__aexit__
aexit_base(db, u) == db

\* SQLDatabaseService.__aexit__
aexit(db, u) == disconnect_session(db, u)

\* the operations under retry_on_db_errors, with the arguments that matter
RetriedOps == { "execute", "add", "add_all", "delete", "commit", "rollback", "refresh" }
DbCalls ==
    { [op |-> "execute", query |-> q, auto_commit |-> a] :
         q \in { "str", "ClauseElement" }, a \in BOOLEAN }
    \cup { [op |-> "execute", query |-> "other", auto_commit |-> a] : a \in BOOLEAN }
    \cup { [op |-> o, query |-> q, auto_commit |-> TRUE] :
             o \in { "fetchone", "fetchall" }, q \in { "str", "other" } }
    \cup { [op |-> o, query |-> "none", auto_commit |-> FALSE] :
             o \in RetriedOps \ { "execute" } }

\* fetchone and fetchall are execute(query, params) and a read of the result
ViaExecute(call) == call.op \in { "execute", "fetchone", "fetchall" }

\* an execute that commits whatever auto_commit says
statements_always_commit(call) ==
    IF ViaExecute(call) THEN <<"execute", "commit">> ELSE <<call.op>>

\* the calls an operation awaits on the session, in order
statements(call) ==
    IF ViaExecute(call)
    THEN IF call.auto_commit THEN <<"execute", "commit">> ELSE <<"execute">>
    ELSE <<call.op>>

\* what the awaited call on the session does to the session when it succeeds
session_call(db, u, call) ==
    LET s == get_session(db, u)[1]
        begun == [db EXCEPT !.sessions[s].in_transaction = TRUE]
        ended == [db EXCEPT !.sessions[s].in_transaction = FALSE]
    IN  CASE ViaExecute(call) ->
                 IF statements(call)[Len(statements(call))] = "commit" THEN ended ELSE begun
          [] call.op \in { "add", "add_all", "delete", "refresh" } -> begun
          [] call.op \in { "commit", "rollback" } -> ended

\* the body of a retried operation, once: connect, then the call on the
\* session, which ends as `out` (NoExc or the exception it raises); session
\* is the session object the call was made on, None when none was reached;
\* issued is what the attempt awaited on the session (an error ends the
\* attempt at its first call on the session)
attempt(db, u, i, call, createOut, out) ==
    LET c == connect(db, u, i, createOut)
        session == get_session(c.db, u)
    IN  IF c.exc # NoExc
        THEN [db |-> c.db, exc |-> c.exc, session |-> None, issued |-> <<>>]
        ELSE IF ViaExecute(call) /\ call.query = "other"
        THEN [db |-> c.db, exc |-> Exc("TypeError", <<>>), session |-> None,
              issued |-> <<>>]
        ELSE IF out # NoExc
        THEN [db |-> c.db, exc |-> out, session |-> session,
              issued |-> <<statements(call)[1]>>]
        ELSE [db |-> session_call(c.db, u, call), exc |-> NoExc, session |-> session,
              issued |-> statements(call)]

\* retry_on_db_errors around an operation: outs[n] is how the session call
\* of attempt n ends; trace collects what each attempt made raised and ran
\* the session each attempt made its call on
\* and issued what the attempts so far awaited on their sessions
RECURSIVE retry_on_db_errors(_, _, _, _, _, _, _, _, _, _)
retry_on_db_errors(db, u, i, call, createOut, outs, attempt_number, trace, ran, issued) ==
    LET r == attempt(db, u, i, call, createOut, outs[attempt_number])
        seen == Append(trace, r.exc)
        used == Append(ran, r.session)
        sent == issued \o r.issued
    IN  IF r.exc = NoExc
        THEN [db |-> r.db, exc |-> NoExc, attempts |-> attempt_number, trace |-> seen,
              ran |-> used, issued |-> sent]
        ELSE IF should_retry_on_exception(r.exc) /\ ~RetryStops(attempt_number)
        THEN retry_on_db_errors(r.db, u, i, call, createOut, outs, attempt_number + 1,
                                seen, used, sent)
        ELSE [db |-> r.db, exc |-> r.exc, attempts |-> attempt_number, trace |-> seen,
              ran |-> used, issued |-> sent]

\* SQLDatabaseService.test_connection: connect, then execute(text("SELECT 1"))
test_connection(db, u, i, createOut, outs) ==
    LET c == connect(db, u, i, createOut)
    IN  IF c.exc # NoExc
        THEN [db |-> c.db, exc |-> c.exc, attempts |-> 0, trace |-> <<>>, ran |-> <<>>,
              issued |-> <<>>]
        ELSE retry_on_db_errors(c.db, u, i,
                 [op |-> "execute", query |-> "ClauseElement", auto_commit |-> TRUE],
                 createOut, outs, 1, <<>>, <<>>, <<>>)

\* the errors a call on the session can end with
SessionErrors ==
    { Exc("OperationalError", <<>>),
      Exc("ConnectionRefusedError", <<>>),
      Exc("DBAPIError", <<"DuplicatePreparedStatementError">>),
      Exc("DBAPIError", <<"InvalidSQLStatementNameError">>),
      Exc("IntegrityError", <<>>),
      Exc("sqlalchemy.exc.TimeoutError", <<"QueuePool", "limit", "reached">>) }

\* how the attempts of one operation end, one more than the retry loop can
\* use: the same error `failures` times, then success
Outcomes(failures, error) ==
    [n \in 1..(StopAfterAttempt + 1) |-> IF n <= failures THEN error ELSE NoExc]

\* every error on all attempts but the last allowed one, and on all attempts
OutcomeSeqs ==
    { Outcomes(k, e) : k \in { StopAfterAttempt - 1, StopAfterAttempt + 1 },
                       e \in SessionErrors }
    \cup { Outcomes(0, NoExc) }

\* the outcomes tried for a call: all of them for execute with a query it
\* accepts, one when the query is neither a string nor a ClauseElement (the
\* session is not reached), and for the other operations success, a
\* connection error on every attempt and a pool timeout on every attempt
OutcomesFor(call) ==
    IF ViaExecute(call) /\ call.query = "other" THEN { Outcomes(0, NoExc) }
    ELSE IF call.op = "execute" /\ call.query = "str" /\ call.auto_commit THEN OutcomeSeqs
    ELSE { Outcomes(0, NoExc),
           Outcomes(StopAfterAttempt + 1, Exc("OperationalError", <<>>)),
           Outcomes(StopAfterAttempt + 1,
                    Exc("sqlalchemy.exc.TimeoutError", <<"QueuePool", "limit", "reached">>)) }

\* how create_async_engine can end, where connect would call it
CreateOutcomes(u, i) ==
    IF get_session(DB, u) = None /\ (engine[i] = None \/ ~session_maker[i])
    THEN { NoExc, Exc("ArgumentError", <<>>) }
    ELSE { NoExc }

NewUnit ==
    [phase |-> "new", pc |-> "idle", inst |-> "none", used |-> FALSE, disposing |-> None]

\* the arguments of an operation that takes none that matter
NoArgs == [query |-> "none", auto_commit |-> FALSE]

NoDbCall ==
    [unit |-> "none", op |-> "none", seq |-> 0, attempt |-> 0, exc |-> NoExc,
     trace |-> <<>>, ran |-> <<>>, args |-> NoArgs, issued |-> <<>>, inst |-> "none"]

DbDone(u, op, seq, attempts, exc, trace, ran) ==
    [unit |-> u, op |-> op, seq |-> seq, attempt |-> attempts, exc |-> exc,
     trace |-> trace, ran |-> ran, args |-> NoArgs, issued |-> <<>>,
     inst |-> unit[u].inst]

\* the record of a finished operation that went through retry_on_db_errors
DbCallDone(u, call, seq, r) ==
    [unit |-> u, op |-> call.op, seq |-> seq, attempt |-> r.attempts, exc |-> r.exc,
     trace |-> r.trace, ran |-> r.ran,
     args |-> [query |-> call.query, auto_commit |-> call.auto_commit],
     issued |-> r.issued, inst |-> unit[u].inst]

SetDB(db) ==
    /\ engine' = db.engine
    /\ session_maker' = db.session_maker
    /\ session_ctx' = db.session_ctx
    /\ sessions' = db.sessions
    /\ engines' = db.engines

InitDB ==
    /\ engine = [i \in Instances |-> None]
    /\ session_maker = [i \in Instances |-> FALSE]
    /\ session_ctx = [u \in Units |-> None]
    /\ sessions = <<>>
    /\ engines = <<>>
    /\ unit = [u \in Units |-> NewUnit]
    /\ nops = 0
    /\ dbLast = NoDbCall

\* nothing has been looked up, derived or constructed yet
NoRet == [fn |-> "none", args |-> <<>>, result |-> <<>>]

\* no call on the settings module yet
NoSettingsCall == [fn |-> "none", arg |-> "none", raised |-> "none", result |-> None]

\* the settings module after import: the default class, no instance
InitSettings ==
    /\ settings_class = "Settings"
    /\ settings_instance = None
    /\ settings_last = NoSettingsCall
    /\ settings_hist = [calls |-> 0, loads |-> 0, overrides |-> 0, first_class |-> None]

\* the coroutines that use one UploadImageFile
Coros == { "c1", "c2" }

IdleCoro == [pc |-> "idle", op |-> "none", data |-> <<>>, limits |-> "none"]

NoImageCall == [coro |-> "none", op |-> "none", raised |-> "none", result |-> None]

\* a new UploadImageFile around the uploaded file f
InitImage(f) ==
    /\ upload = f
    /\ file_pos = 0
    /\ image = FALSE
    /\ base64_cache = None
    /\ base64_lock = None
    /\ coro = [c \in Coros |-> IdleCoro]
    /\ img_last = NoImageCall
    /\ img_calls = 0

\* an empty upload nobody touches
NoUpload == [bytes |-> <<>>, content_type |-> "none", is_image |-> FALSE, in_memory |-> TRUE]

\* no services are configured
InitConfig ==
    /\ services = None
    /\ ret = NoRet
    /\ yaml_config = [allowed_hosts |-> None]
    /\ InitSettings
    /\ InitImage(NoUpload)

Init == InitStorage /\ InitDB /\ InitConfig

SpecStorage == Init /\ [][NextStorage]_vars

\* a unit of work can call the service: it is inside `async with service`
\* and no call of its own is in progress
CanCall(u) ==
    /\ unit[u].phase = "in"
    /\ unit[u].pc = "idle"

\* get_service: `async with service` enters the scope of instance i
Enter(u) ==
    /\ unit[u].phase = "new"
    /\ u = "u1" \/ unit["u1"].phase # "new"
    /\ \E i \in Instances :
          /\ SetDB(aenter(DB, u, i))
          /\ unit' = [unit EXCEPT ![u].phase = "in", ![u].inst = i]
          /\ dbLast' = [DbDone(u, "aenter", nops, 0, NoExc, <<>>, <<>>) EXCEPT !.inst = i]
    /\ UNCHANGED nops
    /\ UNCHANGED storageVars
    /\ UNCHANGED configVars

\* execute, fetchone, fetchall, add, add_all, delete, commit, rollback, refresh
Call(u) ==
    /\ CanCall(u)
    /\ nops < MaxOps
    /\ \E call \in DbCalls, createOut \in CreateOutcomes(u, unit[u].inst) :
       \E outs \in OutcomesFor(call) :
          LET r == retry_on_db_errors(DB, u, unit[u].inst, call, createOut, outs, 1, <<>>,
                                       <<>>, <<>>)
          IN  /\ SetDB(r.db)
              /\ dbLast' = DbCallDone(u, call, nops + 1, r)
    /\ unit' = [unit EXCEPT ![u].used = TRUE]
    /\ nops' = nops + 1
    /\ UNCHANGED storageVars
    /\ UNCHANGED configVars

\* connect, called by the unit itself
Connect(u) ==
    /\ CanCall(u)
    /\ nops < MaxOps
    /\ \E createOut \in CreateOutcomes(u, unit[u].inst) :
          LET c == connect(DB, u, unit[u].inst, createOut)
          IN  /\ SetDB(c.db)
              /\ dbLast' = DbDone(u, "connect", nops + 1, 0, c.exc, <<>>, <<>>)
    /\ unit' = [unit EXCEPT ![u].used = TRUE]
    /\ nops' = nops + 1
    /\ UNCHANGED storageVars
    /\ UNCHANGED configVars

TestConnection(u) ==
    /\ CanCall(u)
    /\ nops < MaxOps
    /\ \E createOut \in CreateOutcomes(u, unit[u].inst),
          outs \in OutcomesFor([op |-> "test_connection"]) :
          LET r == test_connection(DB, u, unit[u].inst, createOut, outs)
          IN  /\ SetDB(r.db)
              /\ dbLast' = DbCallDone(u, [op |-> "test_connection",
                                             query |-> "ClauseElement",
                                             auto_commit |-> TRUE], nops + 1, r)
    /\ unit' = [unit EXCEPT ![u].used = TRUE]
    /\ nops' = nops + 1
    /\ UNCHANGED storageVars
    /\ UNCHANGED configVars

DisconnectSession(u) ==
    /\ CanCall(u)
    /\ SetDB(disconnect_session(DB, u))
    /\ dbLast' = DbDone(u, "disconnect_session", nops, 0, NoExc, <<>>, <<>>)
    /\ UNCHANGED <<unit, nops>>
    /\ UNCHANGED storageVars
    /\ UNCHANGED configVars

\* SQLDatabaseService.disconnect up to `await self.engine.dispose()`
Disconnect(u) ==
    /\ CanCall(u)
    /\ LET i == unit[u].inst
           db1 == disconnect_session(DB, u)
           db2 == [db1 EXCEPT !.session_maker[i] = FALSE]
       IN  /\ SetDB(db2)
           /\ IF db2.engine[i] # None
              THEN /\ unit' = [unit EXCEPT ![u].pc = "dispose",
                                            ![u].disposing = db2.engine[i]]
                   /\ dbLast' = dbLast
              ELSE /\ unit' = unit
                   /\ dbLast' = DbDone(u, "disconnect", nops, 0, NoExc, <<>>, <<>>)
    /\ UNCHANGED nops
    /\ UNCHANGED storageVars
    /\ UNCHANGED configVars

\* dispose() returns and disconnect sets self.engine = None
DisposeDone(u) ==
    /\ unit[u].phase = "in"
    /\ unit[u].pc = "dispose"
    /\ LET i == unit[u].inst
       IN  /\ engines' = [engines EXCEPT ![unit[u].disposing[1]].disposed = TRUE]
           /\ engine' = [engine EXCEPT ![i] = None]
           /\ dbLast' = DbDone(u, "disconnect", nops, 0, NoExc, <<>>, <<>>)
    /\ unit' = [unit EXCEPT ![u].pc = "idle", ![u].disposing = None]
    /\ UNCHANGED <<session_maker, session_ctx, sessions, nops>>
    /\ UNCHANGED storageVars
    /\ UNCHANGED configVars

\* what __aexit__ is given when the body of `async with service` returned,
\* raised, or was cancelled
ExitPaths == { NoExc, Exc("Exception", <<>>), Exc("CancelledError", <<>>) }

\* the body of `async with service` ends; __aexit__ runs on each path
Exit(u) ==
    /\ unit[u].phase = "in"
    /\ unit[u].pc = "idle"
    /\ \E exc \in ExitPaths :
          /\ unit' = [unit EXCEPT ![u].phase = "out"]
          /\ SetDB(aexit(DB, u))
          /\ dbLast' = DbDone(u, "aexit", nops, 0, exc, <<>>, <<>>)
    /\ UNCHANGED nops
    /\ UNCHANGED storageVars
    /\ UNCHANGED configVars

\* the session manager on its own: no storage backend is configured
InitForDB ==
    /\ backend = "none"
    /\ store = <<>>
    /\ dirs = {}
    /\ s3_session = FALSE
    /\ gcs_client = FALSE
    /\ bucket = FALSE
    /\ sftp_client = FALSE
    /\ task = <<>>
    /\ last = NoCall
    /\ ncalls = 0
    /\ trueCount = <<>>
    /\ winner = <<>>
    /\ raced = <<>>
    /\ InitDB
    /\ InitConfig

\* two services, each with its own URL, that one unit of work uses side by
\* side
BothInstances == { "db1", "db2" }

\* unit u calls connect() on instance i
ConnectOn(u, i) ==
    /\ CanCall(u)
    /\ nops < MaxOps
    /\ \E createOut \in CreateOutcomes(u, i) :
          LET c == connect(DB, u, i, createOut)
          IN  /\ SetDB(c.db)
              /\ dbLast' = [DbDone(u, "connect", nops + 1, 0, c.exc, <<>>, <<>>)
                              EXCEPT !.inst = i]
    /\ unit' = [unit EXCEPT ![u].used = TRUE]
    /\ nops' = nops + 1
    /\ UNCHANGED storageVars
    /\ UNCHANGED configVars

\* unit u calls execute(query) on instance i
ExecuteOn(u, i) ==
    /\ CanCall(u)
    /\ nops < MaxOps
    /\ \E auto_commit \in BOOLEAN, createOut \in CreateOutcomes(u, i),
          outs \in { Outcomes(0, NoExc), Outcomes(1, Exc("OperationalError", <<>>)) } :
          LET call == [op |-> "execute", query |-> "str", auto_commit |-> auto_commit]
              r == retry_on_db_errors(DB, u, i, call, createOut, outs, 1, <<>>, <<>>, <<>>)
          IN  /\ SetDB(r.db)
              /\ dbLast' = [DbCallDone(u, call, nops + 1, r) EXCEPT !.inst = i]
    /\ unit' = [unit EXCEPT ![u].used = TRUE]
    /\ nops' = nops + 1
    /\ UNCHANGED storageVars
    /\ UNCHANGED configVars

\* unit u calls disconnect_session() on instance i
DisconnectSessionOn(u, i) ==
    /\ CanCall(u)
    /\ nops < MaxOps
    /\ SetDB(disconnect_session(DB, u))
    /\ dbLast' = [DbDone(u, "disconnect_session", nops + 1, 0, NoExc, <<>>, <<>>)
                    EXCEPT !.inst = i]
    /\ nops' = nops + 1
    /\ UNCHANGED unit
    /\ UNCHANGED storageVars
    /\ UNCHANGED configVars

\* the session manager with two service instances
InitForTwoDB ==
    /\ backend = "none"
    /\ store = <<>>
    /\ dirs = {}
    /\ s3_session = FALSE
    /\ gcs_client = FALSE
    /\ bucket = FALSE
    /\ sftp_client = FALSE
    /\ task = <<>>
    /\ last = NoCall
    /\ ncalls = 0
    /\ trueCount = <<>>
    /\ winner = <<>>
    /\ raced = <<>>
    /\ engine = [i \in BothInstances |-> None]
    /\ session_maker = [i \in BothInstances |-> FALSE]
    /\ session_ctx = [u \in Units |-> None]
    /\ sessions = <<>>
    /\ engines = <<>>
    /\ unit = [u \in Units |-> NewUnit]
    /\ nops = 0
    /\ dbLast = NoDbCall
    /\ InitConfig

NextTwoDB ==
    \E u \in Units :
        \/ Enter(u)
        \/ Exit(u)
        \/ \E i \in BothInstances :
              \/ ConnectOn(u, i)
              \/ ExecuteOn(u, i)
              \/ DisconnectSessionOn(u, i)

SpecTwoDB == InitForTwoDB /\ [][NextTwoDB]_vars

NextDB ==
    \E u \in Units :
        \/ Enter(u)
        \/ Call(u)
        \/ Connect(u)
        \/ TestConnection(u)
        \/ DisconnectSession(u)
        \/ Disconnect(u)
        \/ DisposeDone(u)
        \/ Exit(u)

SpecDB == InitForDB /\ [][NextDB]_vars

(***************************************************************************)
(* Configuration: the service registry of Settings, the Content Addresser  *)
(* and the constructors of the services.  None of them keeps state; ret    *)
(* holds the latest call and what it gave.                                 *)
(***************************************************************************)
MaxServices == 2

\* the service classes that can be configured
ServiceClasses ==
    { "LocalFileStorageService", "S3FileStorageService", "GCSFileStorageService",
      "SFTPFileStorageService", "SQLDatabaseService", "GCPCloudSQLDatabaseService" }

\* the classes a service class derives from, itself included
ClassBases(cls) ==
    CASE cls \in { "LocalFileStorageService", "S3FileStorageService",
                   "GCSFileStorageService", "SFTPFileStorageService" } ->
            { cls, "FileStorageService", "BaseService" }
      [] cls = "SQLDatabaseService" -> { cls, "BaseService" }
      [] cls = "GCPCloudSQLDatabaseService" ->
            { cls, "SQLDatabaseService", "BaseService" }
      [] OTHER -> { cls }

\* the classes callers look up
BaseClasses == ServiceClasses \cup { "FileStorageService", "BaseService" }

\* isinstance(service, base_class)
IsServiceInstance(service, base_class) == base_class \in ClassBases(service.cls)

\* the values of Settings.services: None, or a list of instances; an
\* instance is its class and its identity (where it was constructed)
ServiceLists ==
    { None } \cup
    { Some([k \in DOMAIN f |-> [cls |-> f[k], id |-> k]]) :
        f \in UNION { [1..n -> ServiceClasses] : n \in 0..MaxServices } }

\* a lookup that keeps the last matching service
RECURSIVE last_instance(_, _, _)
last_instance(list, base_class, found) ==
    IF list = <<>> THEN found
    ELSE last_instance(Tail(list), base_class,
                       IF IsServiceInstance(Head(list), base_class)
                       THEN Some(Head(list)) ELSE found)

get_service_last(configured, base_class) ==
    IF configured = None \/ configured[1] = <<>> THEN None
    ELSE last_instance(configured[1], base_class, None)

\* the loop of Settings.get_service over the rest of the list
RECURSIVE first_instance(_, _)
first_instance(list, base_class) ==
    IF list = <<>> THEN None
    ELSE IF IsServiceInstance(Head(list), base_class) THEN Some(Head(list))
    ELSE first_instance(Tail(list), base_class)

\* Settings.get_service
get_service(configured, base_class) ==
    IF configured = None \/ configured[1] = <<>> THEN None
    ELSE first_instance(configured[1], base_class)

\* a caller looks a service up
GetService ==
    /\ \E base_class \in BaseClasses :
          ret' = [fn |-> "get_service", args |-> <<base_class>>,
                  result |-> get_service(services, base_class)]
    /\ UNCHANGED services
    /\ UNCHANGED settingsVars
    /\ UNCHANGED imageVars
    /\ UNCHANGED storageVars
    /\ UNCHANGED dbVars

\* the identifiers paths are derived for: the ones callers pass and the
\* digests of the blobs
PathIds == FileIds \cup { compute_file_id(f) : f \in Files }

\* the extensions paths are derived for: None, "", "txt", ".txt", ".",
\* "..t" and "t.gz"
PathExtensions ==
    Extensions \cup { Some(<<>>), Some(<<".">>), Some(<<".", ".", "t">>),
                      Some(<<"t", ".", "g", "z">>) }

\* a caller derives the storage path of an identifier
GetStoragePath ==
    /\ \E file_id \in PathIds, extension \in PathExtensions :
          ret' = [fn |-> "get_storage_path", args |-> <<file_id, extension>>,
                  result |-> get_storage_path(file_id, extension)]
    /\ UNCHANGED services
    /\ UNCHANGED settingsVars
    /\ UNCHANGED imageVars
    /\ UNCHANGED storageVars
    /\ UNCHANGED dbVars

\* a configured value of a field: not given, given and falsy ("" or 0), or
\* given and usable
FieldValues == { "missing", "empty", "set" }

\* the fields each file storage class reads from its keyword arguments
Fields(cls) ==
    CASE cls = "LocalFileStorageService" -> { "root_path" }
      [] cls = "S3FileStorageService" ->
            { "bucket_name", "access_key", "secret_key", "endpoint_url" }
      [] cls = "GCSFileStorageService" -> { "bucket_name", "project_id" }
      [] cls = "SFTPFileStorageService" ->
            { "host", "port", "username", "password", "root_path" }

\* the class attribute behind a field: "" for the strings, 22 for the SFTP
\* port, and none at all for a root_path that is only annotated
ClassDefault(cls, field) ==
    IF field = "root_path" THEN "missing"
    ELSE IF field = "port" THEN "set"
    ELSE "empty"

\* BaseService.__init__: setattr for every keyword argument
base_init(cls, kwargs) ==
    [f \in Fields(cls) |-> IF kwargs[f] # "missing" THEN kwargs[f] ELSE ClassDefault(cls, f)]

\* `not self.a or not self.b or ...` over the fields in order: the first
\* falsy field decides, and reading a field that has no attribute raises
RECURSIVE any_falsy(_, _)
any_falsy(attrs, order) ==
    IF order = <<>> THEN "False"
    ELSE IF attrs[Head(order)] = "missing" THEN "AttributeError"
    ELSE IF attrs[Head(order)] = "empty" THEN "True"
    ELSE any_falsy(attrs, Tail(order))

\* the order in which __init__ tests the fields
Validated(cls) ==
    CASE cls = "LocalFileStorageService" -> <<>>
      [] cls = "S3FileStorageService" ->
            <<"bucket_name", "access_key", "secret_key", "endpoint_url">>
      [] cls = "GCSFileStorageService" -> <<"bucket_name", "project_id">>
      [] cls = "SFTPFileStorageService" ->
            <<"host", "username", "password", "port", "root_path">>

\* what a constructor gives: an exception or the instance
Built(cls, attrs) == [raised |-> "none", instance |-> Some([cls |-> cls, attrs |-> attrs])]
Failed(exception) == [raised |-> exception, instance |-> None]

\* __init__ of the file storage classes
file_storage_init(cls, kwargs) ==
    LET attrs == base_init(cls, kwargs)
        falsy == any_falsy(attrs, Validated(cls))
    IN  IF falsy = "True" THEN Failed("ValueError")
        ELSE IF falsy = "AttributeError" THEN Failed("AttributeError")
        ELSE Built(cls, attrs)

\* the characters [a-zA-Z0-9_+\-] that occur in the URLs below
ProtoChars == { "a", "c", "e", "g", "l", "m", "n", "o", "p", "q", "r", "s", "t", "y",
               "+", "_", "-" }

\* re.match(_DB_PROTOCOL_REGEX, url): the length of the protocol name, 0
\* when the URL does not start with one followed by "://"
RECURSIVE ProtoRun(_)
ProtoRun(url) ==
    IF url # <<>> /\ Head(url) \in ProtoChars THEN 1 + ProtoRun(Tail(url)) ELSE 0

ProtoLen(url) ==
    LET n == ProtoRun(url)
    IN  IF n > 0 /\ Len(url) >= n + 3 /\ SubSeq(url, n + 1, n + 3) = <<":", "/", "/">>
        THEN n ELSE 0

\* "postgre" in proto
HasPostgre(proto) ==
    \E k \in 1..Len(proto) :
        k + 6 <= Len(proto) /\ SubSeq(proto, k, k + 6) = <<"p","o","s","t","g","r","e">>

AsyncPg == <<"p","o","s","t","g","r","e","s","q","l","+","a","s","y","n","c","p","g",
            ":","/","/">>

\* the url keyword argument: absent, "", "h/d", "://h", "postgres://h" and
\* "mysql://h"
Urls ==
    { None, Some(<<>>), Some(<<"h","/","d">>), Some(<<":","/","/","h">>),
      Some(<<"p","o","s","t","g","r","e","s",":","/","/","h">>),
      Some(<<"m","y","s","q","l",":","/","/","h">>) }

\* SQLDatabaseService.__init__
sql_init(kwargs) ==
    LET url == IF kwargs.url = None THEN <<>> ELSE kwargs.url[1]
        n == ProtoLen(url)
        fixed == IF HasPostgre(SubSeq(url, 1, n))
                 THEN AsyncPg \o SubSeq(url, n + 4, Len(url))
                 ELSE url
    IN  IF url = <<>> THEN Failed("ValueError")
        ELSE IF n = 0 THEN Failed("ValueError")
        ELSE Built("SQLDatabaseService", [url |-> fixed])

\* the keyword arguments a file storage class is constructed with: none at
\* all, every field usable, or one field not given or falsy
KwargsFor(cls) ==
    { kwargs \in [Fields(cls) -> FieldValues] :
        \/ \A f \in Fields(cls) : kwargs[f] = "missing"
        \/ Cardinality({ f \in Fields(cls) : kwargs[f] # "set" }) <= 1 }

\* the arguments a service can be constructed with
ConstructArgs ==
    UNION { { <<cls, kwargs>> : kwargs \in KwargsFor(cls) } :
              cls \in { "LocalFileStorageService", "S3FileStorageService",
                        "GCSFileStorageService", "SFTPFileStorageService" } }
    \cup { <<"SQLDatabaseService", kwargs>> : kwargs \in [url : Urls] }

\* cls(**kwargs)
construct(cls, kwargs) ==
    IF cls = "SQLDatabaseService" THEN sql_init(kwargs)
    ELSE file_storage_init(cls, kwargs)

\* a service is constructed from its configuration
Construct ==
    /\ \E a \in ConstructArgs :
          ret' = [fn |-> "construct", args |-> a,
                  result |-> Some(construct(a[1], a[2]))]
    /\ UNCHANGED services
    /\ UNCHANGED settingsVars
    /\ UNCHANGED imageVars
    /\ UNCHANGED storageVars
    /\ UNCHANGED dbVars

\* str.lower on one character of a scheme
LowerChar(c) ==
    CASE c = "B" -> "b"
      [] c = "E" -> "e"
      [] c = "A" -> "a"
      [] c = "R" -> "r"
      [] c = "S" -> "s"
      [] c = "I" -> "i"
      [] c = "C" -> "c"
      [] OTHER -> c

\* str.lower
lower(str) == [k \in 1..Len(str) |-> LowerChar(str[k])]

\* schemes of an Authorization header: Bearer in three spellings, Basic, a
\* prefix of Bearer and the empty scheme
Schemes ==
    { <<"B", "e", "a", "r", "e", "r">>, <<"b", "e", "a", "r", "e", "r">>,
      <<"B", "E", "A", "R", "E", "R">>, <<"B", "a", "s", "i", "c">>,
      <<"B", "e", "a", "r">>, <<>> }

\* tokens of an Authorization header: the empty one and non-empty ones
Tokens == { <<>>, <<"k">>, <<"k", "1">>, <<" ">> }

\* what the bearer_scheme dependency hands over: None, or the credentials
Bearers == { None } \cup { Some([scheme |-> sc, credentials |-> t]) : sc \in Schemes, t \in Tokens }

HTTP_401_UNAUTHORIZED == 401
HTTP_403_FORBIDDEN == 403

\* an authorize_api_key that accepts every token of a Bearer header
authorize_any_token(bearer) ==
    IF bearer # None /\ lower(bearer[1].scheme) = <<"b", "e", "a", "r", "e", "r">>
    THEN [raised |-> "none", status_code |-> 0, detail |-> "none"]
    ELSE [raised |-> "HTTPException", status_code |-> HTTP_401_UNAUTHORIZED,
          detail |-> "Missing Authorization header"]

\* authorize_api_key
authorize_api_key(bearer) ==
    IF bearer # None /\ lower(bearer[1].scheme) = <<"b", "e", "a", "r", "e", "r">>
    THEN LET api_key == bearer[1].credentials
             api_key_valid == Len(api_key) > 0
             authorized == api_key_valid
         IN  IF ~api_key_valid
             THEN [raised |-> "HTTPException", status_code |-> HTTP_401_UNAUTHORIZED,
                   detail |-> "Invalid API key"]
             ELSE IF ~authorized
             THEN [raised |-> "HTTPException", status_code |-> HTTP_403_FORBIDDEN,
                   detail |-> "API key is inactive or expired"]
             ELSE [raised |-> "none", status_code |-> 0, detail |-> "none"]
    ELSE [raised |-> "HTTPException", status_code |-> HTTP_401_UNAUTHORIZED,
          detail |-> "Missing Authorization header"]

\* a request passes through the authentication dependency
AuthorizeApiKey ==
    /\ \E bearer \in Bearers :
          ret' = [fn |-> "authorize_api_key", args |-> <<bearer>>,
                  result |-> Some(authorize_api_key(bearer))]
    /\ UNCHANGED services
    /\ UNCHANGED settingsVars
    /\ UNCHANGED imageVars
    /\ UNCHANGED storageVars
    /\ UNCHANGED dbVars

\* root_path values of an SFTP service: relative ones, absolute ones and one
\* with a trailing separator
SftpRootPaths ==
    { <<"r", "o", "o", "t">>, <<"u", "p", "/", "i", "n">>, <<"/", "d", "a", "t", "a">>,
      <<"/", "s", "r", "v", "/", "f">>, <<"/", "d", "a", "t", "a", "/">> }

\* the loop over parts in SFTPFileStorageService.upload_file_with_id: the
\* paths it stats (and creates when missing), in order
RECURSIVE sftp_dir_sequence(_, _)
sftp_dir_sequence(parts, current) ==
    IF parts = <<>> THEN <<>>
    ELSE LET cur == IF current # <<>> THEN current \o <<"/">> \o Head(parts)
                    ELSE Head(parts)
         IN  <<cur>> \o sftp_dir_sequence(Tail(parts), cur)

\* the remote path upload_file_with_id opens and the directories it stats or
\* creates before, for a service rooted at root
sftp_remote_dirs(root, storage_path) ==
    LET remote_path == PathJoin(root, storage_path)
        dir_part == RSplitHead(remote_path)
    IN  [remote_path |-> remote_path,
         dirs |-> sftp_dir_sequence(Split(dir_part), <<>>)]

\* an SFTP upload works out where to write and which directories to ensure
SftpRemoteDirs ==
    /\ \E root \in SftpRootPaths, file_id \in FileIds, extension \in Extensions :
          ret' = [fn |-> "sftp_remote_dirs", args |-> <<root, file_id, extension>>,
                  result |-> Some(sftp_remote_dirs(root,
                                                   get_storage_path(file_id, extension)))]
    /\ UNCHANGED services
    /\ UNCHANGED settingsVars
    /\ UNCHANGED imageVars
    /\ UNCHANGED storageVars
    /\ UNCHANGED dbVars

\* the configuration on its own: no backend is in use
InitForConfig ==
    /\ backend = "none"
    /\ store = <<>>
    /\ dirs = {}
    /\ s3_session = FALSE
    /\ gcs_client = FALSE
    /\ bucket = FALSE
    /\ sftp_client = FALSE
    /\ task = <<>>
    /\ last = NoCall
    /\ ncalls = 0
    /\ trueCount = <<>>
    /\ winner = <<>>
    /\ raced = <<>>
    /\ InitDB
    /\ services \in ServiceLists
    /\ ret = NoRet
    /\ yaml_config = [allowed_hosts |-> None]
    /\ InitSettings
    /\ InitImage(NoUpload)

NextConfig ==
    \/ GetService
    \/ GetStoragePath
    \/ Construct
    \/ AuthorizeApiKey
    \/ SftpRemoteDirs

SpecConfig == InitForConfig /\ [][NextConfig]_vars

(***************************************************************************)
(* The settings module: the lazily built singleton, the class override and *)
(* create_app, which reads the singleton.                                  *)
(***************************************************************************)
MaxSettingsCalls == 3

\* Settings, the subclass the API installs and another subclass
SettingsClasses == { "Settings", "ApiSettings", "WorkerSettings" }

\* issubclass for the settings classes
IsSettingsInstance(instance, cls) == instance.cls = cls \/ cls = "Settings"

\* the allowed_hosts of the YAML file: absent, [], and lists with and
\* without the local names
HostLists ==
    { None, Some(<<>>), Some(<<"example.com">>), Some(<<"localhost">>),
      Some(<<"example.com", "127.0.0.1">>) }

\* how loading the configuration ends: it loads, or CONFIG_YAML_PATH is
\* not set
LoadOutcomes == { "ok", "RuntimeError" }

\* the module globals as one value
SettingsModule == [class |-> settings_class, instance |-> settings_instance]

\* an override that only refuses once an instance exists
override_unless_instance(m, new_class) ==
    IF m.instance # None
    THEN [m |-> m, raised |-> "RuntimeError"]
    ELSE [m |-> [m EXCEPT !.class = new_class], raised |-> "none"]

\* override_settings_class
override_settings_class(m, new_class) ==
    IF m.class # "Settings"
    THEN [m |-> m, raised |-> "RuntimeError"]
    ELSE IF m.instance # None
    THEN [m |-> m, raised |-> "RuntimeError"]
    ELSE [m |-> [m EXCEPT !.class = new_class], raised |-> "none"]

\* shared.core.config.get_settings; id is the identity of the object it
\* builds when it builds one
get_settings(m, config, loadOut, id) ==
    IF m.instance = None
    THEN IF loadOut # "ok" THEN [m |-> m, raised |-> loadOut, result |-> None]
         ELSE LET made == [cls |-> m.class, id |-> id,
                           allowed_hosts |-> config.allowed_hosts]
              IN  [m |-> [m EXCEPT !.instance = Some(made)], raised |-> "none",
                   result |-> Some(made)]
    ELSE [m |-> m, raised |-> "none", result |-> m.instance]

\* api.core.config.get_settings
api_get_settings(m, config, loadOut, id) ==
    LET r == get_settings(m, config, loadOut, id)
    IN  IF r.raised # "none" THEN r
        ELSE IF ~IsSettingsInstance(r.result[1], "ApiSettings")
        THEN [r EXCEPT !.raised = "TypeError", !.result = None]
        ELSE r

\* `if x not in hosts: hosts.append(x)`
append_if_absent(hosts, x) ==
    IF \E k \in 1..Len(hosts) : hosts[k] = x THEN hosts ELSE Append(hosts, x)

\* create_app, as far as it touches the settings: allowed_hosts is the list
\* object the settings hold, and append changes it in place
create_app(m, config, loadOut, id) ==
    LET r == api_get_settings(m, config, loadOut, id)
        settings == r.result[1]
        hosts == settings.allowed_hosts
        widened == append_if_absent(append_if_absent(hosts[1], "localhost"), "127.0.0.1")
    IN  IF r.raised # "none" THEN [m |-> r.m, raised |-> r.raised, result |-> None]
        ELSE IF hosts # None /\ hosts[1] # <<>>
        THEN [m |-> [r.m EXCEPT !.instance = Some([settings EXCEPT
                                                      !.allowed_hosts = Some(widened)])],
              raised |-> "none", result |-> None]
        ELSE [m |-> r.m, raised |-> "none", result |-> None]

SetSettings(r, fn, arg) ==
    /\ settings_class' = r.m.class
    /\ settings_instance' = r.m.instance
    /\ settings_last' = [fn |-> fn, arg |-> arg, raised |-> r.raised, result |-> r.result]

\* a caller overrides the settings class
OverrideSettingsClass ==
    /\ settings_hist.calls < MaxSettingsCalls
    /\ \E new_class \in SettingsClasses :
          LET r == override_settings_class(SettingsModule, new_class)
          IN  /\ SetSettings([m |-> r.m, raised |-> r.raised, result |-> None],
                             "override_settings_class", new_class)
              /\ settings_hist' = [settings_hist EXCEPT
                    !.calls = @ + 1,
                    !.overrides = IF r.raised = "none" THEN @ + 1 ELSE @]
    /\ UNCHANGED <<services, ret, yaml_config>>
    /\ UNCHANGED imageVars
    /\ UNCHANGED storageVars
    /\ UNCHANGED dbVars

\* what a call that may build the settings does to the history
Loaded(r) ==
    [settings_hist EXCEPT
        !.calls = @ + 1,
        !.loads = IF settings_instance = None /\ r.m.instance # None THEN @ + 1 ELSE @,
        !.first_class = IF @ = None THEN Some(settings_class) ELSE @]

\* a caller asks for the settings
GetSettings ==
    /\ settings_hist.calls < MaxSettingsCalls
    /\ \E loadOut \in LoadOutcomes :
          LET r == get_settings(SettingsModule, yaml_config, loadOut, settings_hist.loads + 1)
          IN  /\ SetSettings(r, "get_settings", "none")
              /\ settings_hist' = Loaded(r)
    /\ UNCHANGED <<services, ret, yaml_config>>
    /\ UNCHANGED imageVars
    /\ UNCHANGED storageVars
    /\ UNCHANGED dbVars

\* the application is created
CreateApp ==
    /\ settings_hist.calls < MaxSettingsCalls
    /\ \E loadOut \in LoadOutcomes :
          LET r == create_app(SettingsModule, yaml_config, loadOut, settings_hist.loads + 1)
          IN  /\ SetSettings(r, "create_app", "none")
              /\ settings_hist' = Loaded(r)
    /\ UNCHANGED <<services, ret, yaml_config>>
    /\ UNCHANGED imageVars
    /\ UNCHANGED storageVars
    /\ UNCHANGED dbVars

\* the settings module on its own, with each content of the YAML file
InitForSettings ==
    /\ backend = "none"
    /\ store = <<>>
    /\ dirs = {}
    /\ s3_session = FALSE
    /\ gcs_client = FALSE
    /\ bucket = FALSE
    /\ sftp_client = FALSE
    /\ task = <<>>
    /\ last = NoCall
    /\ ncalls = 0
    /\ trueCount = <<>>
    /\ winner = <<>>
    /\ raced = <<>>
    /\ InitDB
    /\ services = None
    /\ ret = NoRet
    /\ yaml_config \in [allowed_hosts : HostLists]
    /\ InitSettings
    /\ InitImage(NoUpload)

NextSettings ==
    \/ OverrideSettingsClass
    \/ GetSettings
    \/ CreateApp

SpecSettings == InitForSettings /\ [][NextSettings]_vars

(***************************************************************************)
(* UploadImageFile: load_image, validate_image and to_base64 on one        *)
(* uploaded file.  UploadFile.read and UploadFile.seek run in place while  *)
(* the spooled file is in memory and in the thread pool, suspending the    *)
(* caller, once it was rolled to disk.                                     *)
(***************************************************************************)
MaxImageCalls == 3

\* the base64 alphabet
B64Alphabet ==
    <<"A", "B", "C", "D", "E", "F", "G", "H", "I", "J", "K", "L", "M", "N", "O", "P",
      "Q", "R", "S", "T", "U", "V", "W", "X", "Y", "Z", "a", "b", "c", "d", "e", "f",
      "g", "h", "i", "j", "k", "l", "m", "n", "o", "p", "q", "r", "s", "t", "u", "v",
      "w", "x", "y", "z", "0", "1", "2", "3", "4", "5", "6", "7", "8", "9", "+", "/">>

\* the four characters for a group of one to three bytes
b64_group(bs) ==
    LET n == bs[1] * 65536 + (IF Len(bs) > 1 THEN bs[2] * 256 ELSE 0)
                            + (IF Len(bs) > 2 THEN bs[3] ELSE 0)
        c1 == B64Alphabet[(n \div 262144) + 1]
        c2 == B64Alphabet[((n \div 4096) % 64) + 1]
        c3 == B64Alphabet[((n \div 64) % 64) + 1]
        c4 == B64Alphabet[(n % 64) + 1]
    IN  IF Len(bs) = 1 THEN <<c1, c2, "=", "=">>
        ELSE IF Len(bs) = 2 THEN <<c1, c2, c3, "=">>
        ELSE <<c1, c2, c3, c4>>

\* base64.b64encode(file_bytes).decode("utf-8")
RECURSIVE b64encode(_)
b64encode(bs) ==
    IF bs = <<>> THEN <<>>
    ELSE IF Len(bs) <= 3 THEN b64_group(bs)
    ELSE b64_group(SubSeq(bs, 1, 3)) \o b64encode(SubSeq(bs, 4, Len(bs)))

\* uploaded files: b"Man", b"Ma" and four bytes, as images and as other
\* content, in memory and rolled to disk
Uploads ==
    { [bytes |-> b, content_type |-> t, is_image |-> i, in_memory |-> m] :
        b \in { <<77, 97, 110>>, <<77, 97>>, <<255, 216, 255, 224>> },
        t \in { "image/png", "text/plain" }, i \in BOOLEAN, m \in BOOLEAN }

\* the object and its callers as one value
ImageFile ==
    [upload |-> upload, file_pos |-> file_pos, image |-> image,
     base64_cache |-> base64_cache, base64_lock |-> base64_lock, coro |-> coro,
     last |-> img_last]

\* file.read(): the bytes from the position to the end
file_read(m) == SubSeq(m.upload.bytes, m.file_pos + 1, Len(m.upload.bytes))

\* the call of coroutine c returns or raises
Return(m, c, raised, result) ==
    [m EXCEPT !.coro[c] = IdleCoro,
              !.last = [coro |-> c, op |-> m.coro[c].op, raised |-> raised,
                        result |-> result]]

\* Image.open(io.BytesIO(file_contents)) identifies the image
image_open(m, file_contents) == m.upload.is_image /\ file_contents = m.upload.bytes

\* what follows load_image: it returns, and validate_image goes on to
\* validate_file_size and validate_image_resolution
after_load(m, c) ==
    IF m.coro[c].op = "validate_image" /\ m.coro[c].limits # "fit"
    THEN Return(m, c, "HTTPException", None)
    ELSE Return(m, c, "none", None)

\* load_image up to its first await
load_image_begin(m, c) ==
    IF m.image THEN after_load(m, c)
    ELSE [m EXCEPT !.coro[c].pc = "l_read"]

\* validate_image up to its first await
validate_image_begin(m, c) ==
    IF m.upload.content_type # "image/png"
    THEN Return(m, c, "HTTPException", None)
    ELSE load_image_begin(m, c)

\* to_base64 up to its first await
to_base64_begin(m, c) ==
    IF m.base64_cache # None THEN Return(m, c, "none", m.base64_cache)
    ELSE IF m.base64_lock = None
    THEN [m EXCEPT !.base64_lock = Some(c), !.coro[c].pc = "b_seek"]
    ELSE [m EXCEPT !.coro[c].pc = "b_lock"]

\* coroutine c is resumed and runs to its next await or to its end
advance(m, c) ==
    LET co == m.coro[c]
    IN  CASE co.pc = "b_lock" ->
               [m EXCEPT !.base64_lock = Some(c), !.coro[c].pc = "b_seek"]
          [] co.pc = "b_seek" ->
               [m EXCEPT !.file_pos = 0, !.coro[c].pc = "b_read"]
          [] co.pc = "b_read" ->
               [m EXCEPT !.file_pos = Len(m.upload.bytes), !.coro[c].data = file_read(m),
                         !.coro[c].pc = "b_seek2"]
          [] co.pc = "b_seek2" ->
               LET encoded == Some(b64encode(co.data))
                   freed == IF m.base64_lock = Some(c) THEN None ELSE m.base64_lock
               IN  Return([m EXCEPT !.file_pos = 0, !.base64_cache = encoded,
                                    !.base64_lock = freed],
                          c, "none", encoded)
          [] co.pc = "l_read" ->
               [m EXCEPT !.file_pos = Len(m.upload.bytes), !.coro[c].data = file_read(m),
                         !.coro[c].pc = "l_seek"]
          [] co.pc = "l_seek" ->
               IF image_open(m, co.data)
               THEN after_load([m EXCEPT !.file_pos = 0, !.image = TRUE], c)
               ELSE Return([m EXCEPT !.file_pos = 0], c, "HTTPException", None)

\* coroutine c can be resumed
CanAdvance(m, c) ==
    /\ m.coro[c].pc # "idle"
    /\ m.coro[c].pc = "b_lock" => m.base64_lock = None

\* coroutine c runs until its call ends: no await suspends it
RECURSIVE run(_, _)
run(m, c) == IF m.coro[c].pc = "idle" THEN m ELSE run(advance(m, c), c)

\* with the file in memory no await of a call suspends
settle(m, c) == IF m.upload.in_memory THEN run(m, c) ELSE m

SetImage(m) ==
    /\ file_pos' = m.file_pos
    /\ image' = m.image
    /\ base64_cache' = m.base64_cache
    /\ base64_lock' = m.base64_lock
    /\ coro' = m.coro
    /\ img_last' = m.last

CanStartImageCall(c) ==
    /\ coro[c].pc = "idle"
    /\ img_calls < MaxImageCalls

Began(c, op, limits) ==
    [ImageFile EXCEPT !.coro[c] = [IdleCoro EXCEPT !.op = op, !.limits = limits]]

ToBase64(c) ==
    /\ CanStartImageCall(c)
    /\ SetImage(settle(to_base64_begin(Began(c, "to_base64", "none"), c), c))
    /\ img_calls' = img_calls + 1
    /\ UNCHANGED upload
    /\ UNCHANGED <<services, ret, settingsVars>>
    /\ UNCHANGED storageVars
    /\ UNCHANGED dbVars

LoadImage(c) ==
    /\ CanStartImageCall(c)
    /\ SetImage(settle(load_image_begin(Began(c, "load_image", "none"), c), c))
    /\ img_calls' = img_calls + 1
    /\ UNCHANGED upload
    /\ UNCHANGED <<services, ret, settingsVars>>
    /\ UNCHANGED storageVars
    /\ UNCHANGED dbVars

\* validate_image, with limits the file fits or violates
ValidateImage(c) ==
    /\ CanStartImageCall(c)
    /\ \E limits \in { "fit", "violated" } :
          SetImage(settle(validate_image_begin(Began(c, "validate_image", limits), c), c))
    /\ img_calls' = img_calls + 1
    /\ UNCHANGED upload
    /\ UNCHANGED <<services, ret, settingsVars>>
    /\ UNCHANGED storageVars
    /\ UNCHANGED dbVars

\* the event loop resumes a suspended coroutine
Resume(c) ==
    /\ CanAdvance(ImageFile, c)
    /\ SetImage(advance(ImageFile, c))
    /\ UNCHANGED <<upload, img_calls>>
    /\ UNCHANGED <<services, ret, settingsVars>>
    /\ UNCHANGED storageVars
    /\ UNCHANGED dbVars

\* one UploadImageFile on its own, for each kind of uploaded file
InitForImage ==
    /\ backend = "none"
    /\ store = <<>>
    /\ dirs = {}
    /\ s3_session = FALSE
    /\ gcs_client = FALSE
    /\ bucket = FALSE
    /\ sftp_client = FALSE
    /\ task = <<>>
    /\ last = NoCall
    /\ ncalls = 0
    /\ trueCount = <<>>
    /\ winner = <<>>
    /\ raced = <<>>
    /\ InitDB
    /\ services = None
    /\ ret = NoRet
    /\ yaml_config = [allowed_hosts |-> None]
    /\ InitSettings
    /\ \E f \in Uploads : InitImage(f)

NextImage ==
    \E c \in Coros :
        \/ ToBase64(c)
        \/ LoadImage(c)
        \/ ValidateImage(c)
        \/ Resume(c)

SpecImage == InitForImage /\ [][NextImage]_vars

(***************************************************************************)
(* Properties of the storage backends                                      *)
(***************************************************************************)
\* the step belongs to an upload_file_with_id call whose path held content
\* when the call began.  A step either completes a call (last changes) or
\* starts or advances one (its task record changes).
ActsOnTakenPath ==
    \/ /\ last' # last
       /\ last'.op = "upload_file_with_id"
       /\ last'.pre # None
    \/ /\ last' = last
       /\ \E t \in Tasks : /\ task'[t] # task[t]
                           /\ task'[t].op = "upload_file_with_id"
                           /\ task'[t].pre # None

\* the faults upload_file_with_id lets propagate, and those its handlers
\* turn into False
PropagatedFaults == { "connect", "list:Error", "put:Error" } \cup
                    (IF backend = "local" THEN { "mkdir" } ELSE {})
HandledFaults == { "exists", "open", "write", "list:ClientError", "put:ClientError" } \cup
                 (IF backend = "sftp" THEN { "mkdir" } ELSE {})

\* C1 (as the code has it): on every backend, no step of an
\* upload_file_with_id call whose path already held content when the call
\* began changes any stored content, and the call never returns True: it
\* returns False, or raises when the connection cannot be established or
\* the S3 listing raises an error that is not a botocore error.
C1_NoOverwrite ==
    [][ActsOnTakenPath =>
          /\ store' = store
          /\ last' # last =>
                /\ last'.result \in { "False" } \cup Raised
                /\ last'.result = "False" <=> last'.fault \notin PropagatedFaults]_vars

\* C1 witness: an upload of other content to a path that held content has
\* returned False and the content is still the old one
C1_Witness ==
    /\ last.op = "upload_file_with_id"
    /\ last.pre # None
    /\ last.pre # Some(last.file)
    /\ last.result = "False"
    /\ last.fault = "none"
    /\ store[last.path] = last.pre

\* C1 as stated: an upload to a path that holds content returns False and
\* leaves the content as it was
C1_AsStated ==
    (last.op = "upload_file_with_id" /\ last.pre # None) =>
        (last.result = "False" /\ store[last.path] = last.pre)

\* C2 (as the code has it): a completed upload_file_with_id returned a
\* boolean when no step failed, returned False when the existence check,
\* the open or the write failed with an error its handler covers, and raised
\* when the connection retries ran out (RetryError), when the local mkdir
\* failed (OSError), or when an S3 request raised a non-botocore error.
C2_BooleanOrRaise ==
    last.op = "upload_file_with_id" =>
        /\ last.result \in { "True", "False" } \cup Raised
        /\ last.fault = "none" => last.result \in { "True", "False" }
        /\ last.fault \in HandledFaults => last.result = "False"
        /\ last.fault \in PropagatedFaults <=> last.result \in Raised
        /\ last.fault = "connect" <=> last.result = "RetryError"
        /\ last.result = "OSError" <=> (backend = "local" /\ last.fault = "mkdir")

\* C2 witness: an upload whose connection failed on all five attempts raised
C2_Witness ==
    /\ last.op = "upload_file_with_id"
    /\ last.fault = "connect"
    /\ last.attempt = StopAfterAttempt
    /\ last.result = "RetryError"
    /\ store[last.path] = last.pre

\* C2 as stated: upload_file_with_id completes with a boolean whatever step
\* fails, and with False whenever a step failed
C2_AsStated ==
    last.op = "upload_file_with_id" =>
        /\ last.result \in { "True", "False" }
        /\ last.fault # "none" => last.result = "False"

\* C3 as stated: upload_file returns the boolean that upload_file_with_id
\* returned for the computed id
C3_ReturnsInner ==
    (last.op = "upload_file" /\ last.inner \in { "True", "False" }) =>
        last.result = last.inner

\* C4 (as the code has it): once an upload to a path has returned True, an
\* exists on that path that completes returns True when its requests
\* succeed; it returns False only on S3 when the listing fails with a
\* botocore error, and raises otherwise.
C4_RoundTrip ==
    (last.op = "exists" /\ trueCount[last.path] >= 1) =>
        /\ last.fault = "none" => last.result = "True"
        /\ last.result = "False" => (backend = "s3" /\ last.fault = "list:ClientError")
        /\ last.result \in Raised <=> last.fault \in { "connect", "exists", "stat", "list:Error" }

\* C4 witness: exists on a path after the upload to it returned True
C4_Witness ==
    /\ last.op = "exists"
    /\ trueCount[last.path] = 1
    /\ store[last.path] = winner[last.path]
    /\ last.result = "True"

\* C4 as stated: after an upload returned True, a following exists on the
\* path returns True
C4_AsStated ==
    (last.op = "exists" /\ trueCount[last.path] >= 1) => last.result = "True"

\* C5: on one backend, at most one upload per storage path returns True and
\* the path keeps the content of that upload; on the local filesystem under
\* every interleaving of the callers, on S3 for the paths no two uploads
\* were in progress on at once.
C5_AtMostOnce ==
    \A p \in FullPaths :
        (backend # "s3" \/ ~raced[p]) =>
            /\ trueCount[p] <= 1
            /\ trueCount[p] = 1 => store[p] = winner[p]

\* C5 witness: after the upload that returned True, a second upload of
\* other content to the same path was refused
C5_Witness ==
    /\ last.op = "upload_file_with_id"
    /\ trueCount[last.path] = 1
    /\ winner[last.path] # Some(last.file)
    /\ last.result = "False"
    /\ last.seq = MaxCalls

\* C9 as stated: a remote operation whose connection succeeds on the fifth
\* attempt completes successfully (an upload to a free path with no other
\* failing step returns True, an exists gives the truth); when all five
\* attempts fail there is no sixth, the error is raised and nothing is written
C9_RetryBound ==
    /\ (/\ last.op = "upload_file_with_id"
        /\ backend # "local"
        /\ last.attempt = StopAfterAttempt
        /\ last.fault = "none"
        /\ last.pre = None
        /\ ~raced[last.path]) => last.result = "True"
    /\ (/\ last.op = "exists"
        /\ last.attempt = StopAfterAttempt
        /\ last.fault = "none") => last.result \in { "True", "False" }
    /\ (last.op # "none" /\ last.fault = "connect") =>
          /\ last.attempt = StopAfterAttempt
          /\ last.result = "RetryError"

(***************************************************************************)
(* Properties of the SQL session manager                                   *)
(***************************************************************************)
SessionIds == 1..Len(sessions)

\* the sessions that unit of work u created
CreatedBy(u) == { s \in SessionIds : sessions[s].unit = u }

\* no two units of work hold the same session object, and the session a
\* unit holds is one it created itself
SlotsDisjoint ==
    \A u \in Units :
        session_ctx[u] # None =>
            /\ session_ctx[u][1] \in CreatedBy(u)
            /\ \A v \in Units \ {u} : session_ctx[v] # session_ctx[u]

\* unit u runs disconnect_session on a session in this step (by itself, in
\* __aexit__ or in disconnect): its slot goes from a session to empty
ClosesSession(u) == session_ctx[u] # None /\ session_ctx'[u] = None

\* C6: two units of work never get the same session object from
\* get_session(), and when disconnect_session runs in one unit the slot of
\* every other unit and the sessions the other units created stay as they were.
C6_SessionIsolation ==
    [][/\ SlotsDisjoint'
       /\ \A u \in Units :
             ClosesSession(u) =>
                 \A v \in Units \ {u} :
                     /\ session_ctx'[v] = session_ctx[v]
                     /\ \A s \in CreatedBy(v) : sessions'[s] = sessions[s]]_vars

\* C6 witness: both units had a session; u1 ran disconnect_session, its
\* session is closed and u2 still holds its own open session
C6_Witness ==
    /\ dbLast.op = "disconnect_session"
    /\ dbLast.unit = "u1"
    /\ session_ctx["u1"] = None
    /\ \E s \in CreatedBy("u1") : ~sessions[s].open
    /\ session_ctx["u2"] # None
    /\ sessions[session_ctx["u2"][1]].open
    /\ sessions[session_ctx["u2"][1]].unit = "u2"

C8_LazyAcquisition ==
    [][\A u \in Units :
          /\ (unit[u].phase = "new" /\ unit'[u].phase = "in") =>
                 UNCHANGED <<engine, session_maker, session_ctx, sessions, engines>>
          /\ (unit'[u].phase = "in" /\ ~unit'[u].used) => session_ctx'[u] = None]_vars

\* C8 witness: u2 has entered after u1 created an engine and a session; u2
\* has called nothing and its slot is empty
C8_Witness ==
    /\ dbLast.op = "aenter"
    /\ dbLast.unit = "u2"
    /\ unit["u2"].phase = "in"
    /\ ~unit["u2"].used
    /\ session_ctx["u2"] = None
    /\ session_ctx["u1"] # None
    /\ engine["db1"] # None

\* the errors the code retries, by class and message
Transient(e) ==
    \/ e.cls \in { "OperationalError", "ConnectionRefusedError" }
    \/ /\ e.cls = "DBAPIError"
       /\ e.msg \in { <<"DuplicatePreparedStatementError">>,
                      <<"InvalidSQLStatementNameError">> }

\* the errors the specification calls transient: those, and the pool timeout
TransientAsStated(e) == Transient(e) \/ e.cls = "sqlalchemy.exc.TimeoutError"

\* C10 (as the code has it): a retried operation makes at most 5 attempts;
\* every attempt before the last one it made failed with an OperationalError,
\* an OSError or a DBAPIError that names DuplicatePreparedStatementError or
\* InvalidSQLStatementNameError; when the last attempt failed with such an
\* error it was the fifth; any other error, the pool timeout included, ends
\* the operation at the attempt that raised it; and the operation raises
\* exactly what its last attempt raised, returning normally only when that
\* attempt succeeded.
C10_RetryBound ==
    dbLast.op \in RetriedOps =>
        /\ dbLast.attempt \in 1..StopAfterAttempt
        /\ Len(dbLast.trace) = dbLast.attempt
        /\ \A k \in 1..(dbLast.attempt - 1) : Transient(dbLast.trace[k])
        /\ dbLast.exc = dbLast.trace[dbLast.attempt]
        /\ Transient(dbLast.exc) => dbLast.attempt = StopAfterAttempt
        /\ (dbLast.trace[1] # NoExc /\ ~Transient(dbLast.trace[1])) => dbLast.attempt = 1

\* C10 witness: execute failed five times with a connection error and
\* raised it
C10_Witness ==
    /\ dbLast.op = "execute"
    /\ dbLast.attempt = StopAfterAttempt
    /\ dbLast.exc = Exc("OperationalError", <<>>)
    /\ \A k \in 1..StopAfterAttempt : dbLast.trace[k] = dbLast.exc

\* C10 as stated: an operation whose every attempt fails with a connection
\* error, a prepared-statement error or a pool timeout is attempted exactly
\* 5 times before the error propagates
C10_AsStated ==
    (/\ dbLast.op \in RetriedOps
     /\ dbLast.exc # NoExc
     /\ \A k \in 1..dbLast.attempt : TransientAsStated(dbLast.trace[k])) =>
        dbLast.attempt = StopAfterAttempt
\* C11: when an attempt of execute fails with a transient error, the next
\* attempt does not make its call on the session object the failed attempt
\* used.  connect returns at once while the slot holds a session and nothing
\* empties the slot between attempts, so the retry runs on the same session.
C11_RetryReconnects ==
    dbLast.op = "execute" =>
        \A n \in 1..(dbLast.attempt - 1) :
            (Transient(dbLast.trace[n]) /\ dbLast.ran[n] # None)
                => dbLast.ran[n + 1] # dbLast.ran[n]

\* the step is a call of connect by unit u
ConnectStep(u) ==
    /\ dbLast'.op = "connect"
    /\ dbLast'.unit = u
    /\ dbLast'.seq = nops + 1

\* C12: a connect in a scope whose slot holds a session changes nothing (the
\* same session, engine and session factory, no new object) and does not
\* raise; a connect that finds the slot empty and returns makes exactly one
\* session, so consecutive connects in one scope yield exactly one session.
C12_ConnectIdempotent ==
    [][\A u \in Units :
          ConnectStep(u) =>
              /\ session_ctx[u] # None =>
                    /\ dbLast'.exc = NoExc
                    /\ UNCHANGED <<engine, session_maker, session_ctx, sessions, engines>>
              /\ (session_ctx[u] = None /\ dbLast'.exc = NoExc) =>
                    /\ Len(sessions') = Len(sessions) + 1
                    /\ session_ctx'[u] = Some(Len(sessions'))
              /\ LET again == connect([engine |-> engine', session_maker |-> session_maker',
                                       session_ctx |-> session_ctx', sessions |-> sessions',
                                       engines |-> engines'], u, unit[u].inst, NoExc)
                 IN  dbLast'.exc = NoExc =>
                        /\ again.exc = NoExc
                        /\ again.db.session_ctx = session_ctx'
                        /\ again.db.sessions = sessions'
                        /\ again.db.engine = engine'
                        /\ again.db.session_maker = session_maker']_vars

\* connect returned in a unit whose slot already held a session, the one an
\* earlier call of the unit made and left in a transaction; it is still the
\* only session
C12_Witness ==
    /\ dbLast.op = "connect"
    /\ dbLast.seq = 2
    /\ dbLast.exc = NoExc
    /\ session_ctx[dbLast.unit] = Some(1)
    /\ sessions[1].in_transaction
    /\ Len(sessions) = 1
    /\ Len(engines) = 1

\* no disconnect has found an engine to dispose: none is disposed and no
\* unit is inside dispose().  A disconnect that finds no engine does what
\* disconnect_session does and leaves the session factory absent as it was.
NoDisconnect ==
    /\ \A e \in 1..Len(engines) : ~engines[e].disposed
    /\ \A u \in Units : unit[u].pc # "dispose"

\* the step is dispose() returning inside a disconnect of some unit
DisposeStep == \E u \in Units : unit[u].pc = "dispose" /\ unit'[u].pc = "idle"

\* C13: as long as only connect, the operations and disconnect_session have
\* been called, by any number of units (and disconnect at most where there
\* was no engine), at most one engine has been constructed, it is the one
\* the service holds, and no step replaces or drops it; an engine is
\* disposed by the dispose() of disconnect alone.
C13_EngineLifetime ==
    [][/\ NoDisconnect' =>
            /\ Len(engines') <= 1
            /\ \A i \in Instances :
                  /\ engine[i] # None => engine'[i] = engine[i]
                  /\ engine'[i] # None => engine'[i] = Some(1) /\ Len(engines') = 1
       /\ \A e \in 1..Len(engines) :
            engines'[e].disposed # engines[e].disposed => DisposeStep]_vars

\* without any disconnect, both units have connected and one has left, one
\* session is closed and the other open, and the single engine is live
C13_Witness ==
    /\ NoDisconnect
    /\ Len(engines) = 1
    /\ ~engines[1].disposed
    /\ engine["db1"] = Some(1)
    /\ Len(sessions) = 2
    /\ sessions[1].unit # sessions[2].unit
    /\ \E u \in Units : unit[u].phase = "out"
    /\ \A s \in SessionIds : sessions[s].bind = 1

\* the step is a call of disconnect_session by unit u
DisconnectSessionStep(u) ==
    /\ CanCall(u)
    /\ dbLast'.op = "disconnect_session"
    /\ dbLast'.unit = u
    /\ unit' = unit

C15_FullTeardown ==
    dbLast.op = "disconnect" =>
        LET u == dbLast.unit
            i == unit[u].inst
            later == connect(DB, u, i, NoExc)
        IN  /\ session_ctx[u] = None
            /\ ~session_maker[i]
            /\ engine[i] = None
            /\ \A e \in 1..Len(engines) : engines[e].disposed
            /\ later.exc = NoExc
            /\ Len(later.db.engines) = Len(engines) + 1
            /\ later.db.engine[i] = Some(Len(engines) + 1)
            /\ Len(later.db.sessions) = Len(sessions) + 1
            /\ later.db.session_ctx[u] = Some(Len(sessions) + 1)

\* every unit's slot is empty
NoSlotHoldsSession == \A u \in Units : session_ctx[u] = None

\* C16, as amended: as long as no disconnect has found an engine to dispose,
\* an absent engine implies that no unit's slot holds a session (a slot with
\* a session implies that the engine exists).
C16_EngineBeforeSession ==
    NoDisconnect =>
        \A i \in Instances : engine[i] = None => NoSlotHoldsSession

\* a connect failed to build the engine (create_async_engine raised): the
\* engine is absent and no slot holds a session
C16_Witness ==
    /\ dbLast.exc.cls = "ArgumentError"
    /\ dbLast.op \in RetriedOps \cup { "connect", "test_connection" }
    /\ unit[dbLast.unit].phase = "in"
    /\ engine["db1"] = None
    /\ engines = <<>>
    /\ NoSlotHoldsSession
    /\ \E v \in Units \ { dbLast.unit } : unit[v].phase = "in" /\ unit[v].used

\* C16, as stated: in every reachable state an absent engine implies that no
\* unit's slot holds a session, disconnect called beside active units
\* included.  disconnect empties the caller's slot only.
C16_AsStated ==
    \A i \in Instances : engine[i] = None => NoSlotHoldsSession

\* the positions of the configured services that are instances of base_class
Matches(base_class) ==
    IF services = None THEN {}
    ELSE { k \in 1..Len(services[1]) : base_class \in ClassBases(services[1][k].cls) }

\* C17: get_service(base_class) returns the first configured service, in
\* the order of the list, that is an instance of base_class (of the class or
\* of a subclass), and returns None when the list is absent, empty or holds
\* no such service.
C17_RegistryLookup ==
    ret.fn = "get_service" =>
        LET matches == Matches(ret.args[1])
        IN  IF matches = {} THEN ret.result = None
            ELSE \E k \in matches :
                    /\ \A j \in matches : k <= j
                    /\ ret.result = Some(services[1][k])

\* a lookup of SQLDatabaseService found the first of two services that are
\* instances of it, an instance of its subclass
C17_Witness ==
    /\ ret.fn = "get_service"
    /\ ret.args = <<"SQLDatabaseService">>
    /\ services # None
    /\ Len(services[1]) = 2
    /\ services[1][1].cls = "GCPCloudSQLDatabaseService"
    /\ services[1][2].cls = "SQLDatabaseService"
    /\ ret.result = Some(services[1][1])

\* id[0:3] + "/" + id[3:6] + "/" + id, as text
ShardedId(id) ==
    SubSeq(id, 1, 3) \o <<"/">> \o SubSeq(id, 4, 6) \o <<"/">> \o id

\* "." + ext without the separators ext starts with; nothing for no ext and ""
Suffix(ext) ==
    IF ext = None \/ ext = Some(<<>>) THEN <<>> ELSE <<".">> \o LStrip(ext[1], ".")

\* C18: for every identifier (a hex digest) and optional extension,
\* get_storage_path(id, ext) is id[0:3] / id[3:6] / id followed by "." and
\* ext without its leading separators, or by nothing when ext is absent or
\* empty; calls with equal arguments give equal paths and calls that differ
\* in ext only give paths that differ after id only.
C18_StoragePath ==
    [][ret'.fn = "get_storage_path" =>
          /\ ret'.result = ShardedId(ret'.args[1]) \o Suffix(ret'.args[2])
          /\ ret.fn = "get_storage_path" =>
                /\ ret.args = ret'.args => ret.result = ret'.result
                /\ ret.args[1] = ret'.args[1] =>
                      /\ IsPrefix(ShardedId(ret.args[1]), ret.result)
                      /\ IsPrefix(ShardedId(ret.args[1]), ret'.result)]_vars

\* the path of "abcdef1" with extension ".txt" is abc/def/abcdef1.txt
C18_Witness ==
    /\ ret.fn = "get_storage_path"
    /\ ret.args = << <<"a","b","c","d","e","f","1">>, Some(<<".","t","x","t">>) >>
    /\ ret.result = <<"a","b","c","/","d","e","f","/","a","b","c","d","e","f","1",
                      ".","t","x","t">>

\* the step belongs to an exists call on path p: the call starts (S3, which
\* suspends in list_objects_v2) or returns
ExistsStep(p) ==
    \/ /\ last' # last
       /\ last'.op = "exists"
       /\ last'.path = p
    \/ \E t \in Tasks : /\ task'[t] # task[t]
                         /\ task'[t].op = "exists"
                         /\ task'[t].path = p

\* the connection state of the backend instance
ConnState == <<s3_session, gcs_client, bucket, sftp_client>>

\* the faults of an exists call that reach the caller as an exception
ExistsRaises == { "connect", "exists", "stat", "list:Error" }

\* C19, as amended: exists on a path that holds nothing changes no stored
\* content and no directory; it returns False unless a connection or
\* request failure makes it raise (S3 returns False on a ClientError too).
\* On the local backend the connection state is unchanged as well; on the
\* remote backends the call may create the session or client the instance
\* makes on first use, and never drops one.
C19_ExistsUnwritten ==
    [][\A p \in FullPaths :
          (ExistsStep(p) /\ store[p] = None) =>
              /\ UNCHANGED <<store, dirs>>
              /\ backend = "local" => UNCHANGED ConnState
              /\ s3_session => s3_session'
              /\ gcs_client => gcs_client'
              /\ bucket => bucket'
              /\ sftp_client => sftp_client'
              /\ last' # last =>
                    /\ last'.result \in { "False" } \cup Raised
                    /\ last'.fault = "none" => last'.result = "False"
                    /\ last'.result \in Raised <=> last'.fault \in ExistsRaises]_vars

\* the first call on a GCS instance is an exists on a path that holds
\* nothing: it returned False and left the client and the bucket set
C19_Witness ==
    /\ backend = "gcs"
    /\ last.op = "exists"
    /\ last.seq = 1
    /\ last.pre = None
    /\ store[last.path] = None
    /\ last.fault = "none"
    /\ last.result = "False"
    /\ gcs_client /\ bucket

\* C19, as stated: exists on a path that was never written returns False,
\* raises nothing and leaves the stored content and the connection state of
\* the instance as they were, on every backend.
C19_AsStated ==
    [][\A p \in FullPaths :
          (ExistsStep(p) /\ store[p] = None) =>
              /\ UNCHANGED <<store, dirs>>
              /\ UNCHANGED ConnState
              /\ last' # last => last'.result = "False"]_vars

\* the fields a file storage class cannot work without
Required(cls) ==
    CASE cls = "LocalFileStorageService" -> { "root_path" }
      [] cls = "S3FileStorageService" ->
            { "bucket_name", "access_key", "secret_key", "endpoint_url" }
      [] cls = "GCSFileStorageService" -> { "bucket_name", "project_id" }
      [] cls = "SFTPFileStorageService" ->
            { "host", "port", "username", "password", "root_path" }

\* C20: a constructor that returns an instance has found every required
\* field present and non-empty, and for SQL a URL with a protocol prefix; with
\* any of them missing it raises.  LocalFileStorageService has no __init__
\* of its own: it is built without root_path, or with an empty one.
C20_FatalAtConstruction ==
    (ret.fn = "construct" /\ ret.result[1].raised = "none") =>
        LET instance == ret.result[1].instance[1]
        IN  IF instance.cls = "SQLDatabaseService"
            THEN ProtoLen(instance.attrs.url) > 0
            ELSE \A f \in Required(instance.cls) : instance.attrs[f] = "set"

(***************************************************************************)
(* Properties of the SFTP and S3 uploads                                   *)
(***************************************************************************)

\* the latest call is an SFTP upload_file_with_id that connected and met no
\* failing mkdir, open or write
SftpUploadDone ==
    /\ backend = "sftp"
    /\ last.op = "upload_file_with_id"
    /\ last.fault = "none"

\* C24: an SFTP upload_file_with_id with the connection up and no file at
\* the remote path creates the missing ancestor directories, writes the file
\* and returns True; it returns False as 'already exists' only when a file
\* is present at the remote path.
C24_SftpUploadFreePath ==
    /\ (SftpUploadDone /\ last.pre = None) =>
          /\ last.result = "True"
          /\ store[last.path] = Some(last.file)
          /\ sftp_dir_chain(Split(RSplitHead(last.path)), <<>>) \subseteq dirs
    /\ (SftpUploadDone /\ last.result = "False") => last.pre # None

\* the latest call is an upload that returned True for a path an earlier
\* upload had already returned True for
SecondTrue ==
    /\ IsUpload(last.op)
    /\ last.inner = "True"
    /\ trueCount[last.path] >= 2

\* C25: two uploads of the same id return True only on S3 and only when
\* they overlapped: the later one began, and so passed its listing, while
\* the path was still free, and its put replaced what the earlier one wrote.
C25_CheckThenWriteRace ==
    /\ SecondTrue =>
          /\ backend = "s3"
          /\ raced[last.path]
          /\ last.pre = None
          /\ winner[last.path] # None
    /\ (backend = "s3" /\ IsUpload(last.op) /\ last.inner = "True") =>
          store[last.path] = Some(last.file)

\* both concurrent uploads of one id returned True and the object holds the
\* content of the later put, not of the earlier one
C25_Witness ==
    /\ backend = "s3"
    /\ SecondTrue
    /\ last.op = "upload_file_with_id"
    /\ trueCount[last.path] = 2
    /\ last.pre = None
    /\ winner[last.path] # Some(last.file)
    /\ store[last.path] = Some(last.file)

\* C28: on every backend, an upload_file_with_id that returns False (and
\* did not overlap another upload of the same path) leaves exists() of its
\* path as it was before the call: a failed write leaves no file behind.
C28_FailedUploadNoTrace ==
    (/\ last.op = "upload_file_with_id"
     /\ last.result = "False"
     /\ ~raced[last.path]) =>
        (store[last.path] # None) = (last.pre # None)

\* the ancestors of path p from the outermost to the innermost, the anchor
\* left out
PathAncestors(p) ==
    LET parts == SelectSeq(Split(p), IsRealPart)
    IN  [k \in 1..(Len(parts) - 1) |-> PathAnchor(p) \o JoinParts(SubSeq(parts, 1, k))]

\* C29: for every root_path, absolute or relative, the directories the SFTP
\* upload stats or creates are exactly the ancestors of the remote path it
\* then opens, outermost first, so its parent directory is among them.
C29_AncestorsOfWrittenPath ==
    ret.fn = "sftp_remote_dirs" =>
        LET r == ret.result[1]
        IN  /\ r.dirs = PathAncestors(r.remote_path)
            /\ r.dirs # <<>>
            /\ r.dirs[Len(r.dirs)] \in PathParents(r.remote_path)

\* the step is a call of `op` on instance i by unit u that returns
OnStep(u, i, op) ==
    /\ dbLast'.seq = nops + 1
    /\ dbLast'.op = op
    /\ dbLast'.unit = u
    /\ dbLast'.inst = i
    /\ dbLast'.exc = NoExc

\* session s is bound to an engine of instance i
BoundTo(s, i) == engines[sessions[s].bind].inst = i

\* C27: two SQLDatabaseService instances used in one unit of work each hold
\* their own session bound to their own engine: after connect() on an
\* instance returns, the session that instance works on is bound to its own
\* engine, also when the other instance already had a session in the scope,
\* which is left as it was; and disconnect_session() on one instance does not
\* close or clear a session of the other.
C27_PerInstanceSessions ==
    [][\A u \in Units, i \in BothInstances :
          /\ OnStep(u, i, "connect") =>
                /\ get_session(DB, u)' # None
                /\ engine'[i] # None
                /\ sessions'[get_session(DB, u)'[1]].bind = engine'[i][1]
                /\ \A s \in 1..Len(sessions) : sessions'[s] = sessions[s]
          /\ OnStep(u, i, "disconnect_session") =>
                \A s \in 1..Len(sessions) :
                    ~BoundTo(s, i) =>
                        /\ sessions'[s] = sessions[s]
                        /\ session_ctx[u] = Some(s) => session_ctx'[u] = Some(s)]_vars

\* "commit" is among the calls the latest operation awaited on a session
CommitIssued == \E k \in 1..Len(dbLast.issued) : dbLast.issued[k] = "commit"

\* a call on the service returns or raises in this step
CallEnds == dbLast'.seq # dbLast.seq

\* the latest operation ended by running the query and then committing, on
\* the session of the calling scope
QueryThenCommit ==
    LET n == Len(dbLast.issued)
        session == dbLast.ran[Len(dbLast.ran)]
    IN  /\ n >= 2
        /\ dbLast.issued[n - 1] = "execute"
        /\ dbLast.issued[n] = "commit"
        /\ session # None
        /\ session = session_ctx[dbLast.unit]
        /\ ~sessions[session[1]].in_transaction

\* parts of C23 that concern calls that return
CommitsWhenAsked ==
    /\ (dbLast.op = "execute" /\ dbLast.args.auto_commit /\ dbLast.exc = NoExc)
          => QueryThenCommit
    /\ (dbLast.op = "execute" /\ ~dbLast.args.auto_commit) => ~CommitIssued
    /\ (dbLast.op \in { "fetchone", "fetchall" } /\ dbLast.exc = NoExc)
          => QueryThenCommit

\* the latest operation was given a query that is neither a string nor a
\* ClauseElement
BadQuery ==
    dbLast.op \in { "execute", "fetchone", "fetchall" } /\ dbLast.args.query = "other"

\* C23 as stated: an execute with auto_commit=True that returns has run the
\* query and then committed the scope's session; execute with
\* auto_commit=False issues no commit; fetchone and fetchall that return have
\* committed; a query that is neither a string nor a ClauseElement raises
\* TypeError and commits nothing.
C23_AsStated ==
    [][CallEnds => /\ CommitsWhenAsked'
                   /\ BadQuery' => (dbLast'.exc.cls = "TypeError" /\ ~CommitIssued')]_vars

\* C23: as above, except that a query that is neither a string nor a
\* ClauseElement raises TypeError once connect() has given the scope a
\* session, and raises connect's error when connect() fails; in both cases
\* nothing is run or committed.
C23_AutoCommit ==
    [][CallEnds => /\ CommitsWhenAsked'
                   /\ BadQuery' =>
                         /\ dbLast'.issued = <<>>
                         /\ IF session_ctx'[dbLast'.unit] # None
                            THEN dbLast'.exc.cls = "TypeError"
                            ELSE dbLast'.exc.cls = "ArgumentError"]_vars

\* an execute with auto_commit=True returned on a session that an earlier
\* execute with auto_commit=False had left in a transaction
C23_Witness ==
    /\ dbLast.op = "execute"
    /\ dbLast.seq = 2
    /\ dbLast.args.auto_commit
    /\ dbLast.exc = NoExc
    /\ dbLast.issued = <<"execute", "commit">>
    /\ Len(sessions) = 1
    /\ ~sessions[1].in_transaction

(***************************************************************************)
(* Properties of the authentication dependency                             *)
(***************************************************************************)

\* the scheme of the latest authorize_api_key call is Bearer, in any case
IsBearer(bearer) ==
    bearer # None /\ lower(bearer[1].scheme) = <<"b", "e", "a", "r", "e", "r">>

C26_Base64CoroutineSafe ==
    /\ (img_last.op = "to_base64" /\ img_last.raised = "none") =>
          img_last.result = Some(b64encode(upload.bytes))
    /\ base64_cache # None => base64_cache = Some(b64encode(upload.bytes))

(***************************************************************************)
(* Properties of the settings module                                       *)
(***************************************************************************)

\* C21: configuration is loaded once and immutable: once the settings
\* instance exists, no operation (get_settings, override_settings_class,
\* create_app) replaces it or changes a value read through it.
C21_LoadedOnceImmutable ==
    [][settings_instance # None => settings_instance' = settings_instance]_vars

\* a call that returned without raising
SettingsReturned(fn) == settings_last.fn = fn /\ settings_last.raised = "none"

====
